---- MODULE Spec2Model ----
(***************************************************************************)
(* Model of the bibliography manager CODE/bib.py: the library directory    *)
(* of PDFs, the metadata store (METADATA/metadata.csv) and the commands    *)
(* scan, cleanup, tag and import-bibtex that read and rewrite them.        *)
(* Strings are TLC strings; characters are strings of length one.          *)
(***************************************************************************)
EXTENDS Integers, Sequences, FiniteSets, TLC

(***************************************************************************)
(* Characters and the str methods / regular expressions the code uses      *)
(***************************************************************************)
DigitChars == {"0", "1", "2", "3", "4", "5", "6", "7", "8", "9"}
LowerAlpha == "abcdefghijklmnopqrstuvwxyz"
UpperAlpha == "ABCDEFGHIJKLMNOPQRSTUVWXYZ"
\* s[i-1:i]: the character at position i, "" past either end
Ch(s, i) == IF i >= 1 /\ i <= Len(s) THEN SubSeq(s, i, i) ELSE ""
LowerChars == {Ch(LowerAlpha, i) : i \in 1..26}
UpperChars == {Ch(UpperAlpha, i) : i \in 1..26}
LetterChars == LowerChars \cup UpperChars
AlnumChars == LetterChars \cup DigitChars
\* \w of the re module: letters, digits and the underscore
WordChars == AlnumChars \cup {"_"}
\* \s of the re module and str.strip(): the whitespace of the modelled texts
SpaceChars == {" ", "\t", "\n", "\r"}

\* str.lower() on one character
LowerCh(c) ==
    IF c \in UpperChars
    THEN Ch(LowerAlpha, CHOOSE i \in 1..26 : Ch(UpperAlpha, i) = c)
    ELSE c

\* "".join(pieces[lo..hi]), by halves
RECURSIVE Cat(_, _, _)
Cat(pieces, lo, hi) ==
    IF lo > hi THEN ""
    ELSE IF lo = hi THEN pieces[lo]
    ELSE Cat(pieces, lo, (lo + hi) \div 2) \o Cat(pieces, ((lo + hi) \div 2) + 1, hi)

\* str.lower()
ToLower(s) == Cat([i \in 1..Len(s) |-> LowerCh(Ch(s, i))], 1, Len(s))

\* s[i:] and s[:i] with 0-based Python slice bounds
DropTo(s, n) == SubSeq(s, n + 1, Len(s))
TakeTo(s, n) == SubSeq(s, 1, IF n < Len(s) THEN n ELSE Len(s))

RECURSIVE LStrip(_, _)
LStrip(s, cs) == IF s /= "" /\ Ch(s, 1) \in cs THEN LStrip(Tail(s), cs) ELSE s
RECURSIVE RStrip(_, _)
RStrip(s, cs) ==
    IF s /= "" /\ Ch(s, Len(s)) \in cs THEN RStrip(SubSeq(s, 1, Len(s) - 1), cs) ELSE s
\* str.strip(chars)
StripChars(s, cs) == RStrip(LStrip(s, cs), cs)
\* str.strip()
Strip(s) == StripChars(s, SpaceChars)

StartsWith(s, p) == Len(p) <= Len(s) /\ SubSeq(s, 1, Len(p)) = p
EndsWith(s, p) == Len(p) <= Len(s) /\ SubSeq(s, Len(s) - Len(p) + 1, Len(s)) = p
\* s[i..] starts with p (1-based i)
MatchAt(s, i, p) == i + Len(p) - 1 <= Len(s) /\ SubSeq(s, i, i + Len(p) - 1) = p
\* p in s
Contains(s, p) == \E i \in 1..(Len(s) + 1) : MatchAt(s, i, p)
\* str.count(c) for one character
CountCh(s, c) == Cardinality({i \in 1..Len(s) : Ch(s, i) = c})
\* \b of the re module at the gap before position i (1..Len(s)+1)
IsWordAt(s, i) == i >= 1 /\ i <= Len(s) /\ Ch(s, i) \in WordChars
Boundary(s, i) == IsWordAt(s, i - 1) /= IsWordAt(s, i)

\* str.replace(a, b) for a one-character a
ReplaceCh(s, a, b) == Cat([i \in 1..Len(s) |-> IF Ch(s, i) = a THEN b ELSE Ch(s, i)], 1, Len(s))

\* re.sub(r"[^a-z0-9]+", "_", s): every maximal run of other characters becomes "_"
\* re.sub of every maximal run of characters of cs by r: the first character of a
\* run yields r, the others nothing
SubRuns(s, cs, r) ==
    Cat([i \in 1..Len(s) |->
            IF Ch(s, i) \notin cs THEN Ch(s, i)
            ELSE IF i > 1 /\ Ch(s, i - 1) \in cs THEN "" ELSE r], 1, Len(s))
SlugChars == LowerChars \cup DigitChars
SubNonSlug(s) ==
    Cat([i \in 1..Len(s) |->
            IF Ch(s, i) \in SlugChars THEN Ch(s, i)
            ELSE IF i > 1 /\ Ch(s, i - 1) \notin SlugChars THEN "" ELSE "_"], 1, Len(s))

\* re.sub(r"_+", "_", s)
SubUnderscores(s) == SubRuns(s, {"_"}, "_")

\* re.sub(r"\s+", " ", s)
SubSpaces(s) == SubRuns(s, SpaceChars, " ")

\* str(n) for the small suffix numbers the allocator reaches
DecDigits == "0123456789"
RECURSIVE IntToStr(_)
IntToStr(n) ==
    IF n < 10 THEN Ch(DecDigits, n + 1)
    ELSE IntToStr(n \div 10) \o Ch(DecDigits, (n % 10) + 1)

(***************************************************************************)
(* Identifier allocator: slugify, build_code                               *)
(***************************************************************************)
SlugMaxLen == 60
TypeSlugMaxLen == 20

\* s or default
OrDefault(s, default) == IF s = "" THEN default ELSE s

\* value[:max_len].rstrip("_") or "untitled" for the cleaned value
SlugCut(value, max_len) == IF value = "" THEN "untitled" ELSE RStrip(TakeTo(value, max_len), {"_"})
slugify(value, max_len) ==
    SlugCut(StripChars(SubUnderscores(SubNonSlug(ToLower(Strip(value)))), {"_"}), max_len)

\* YEAR_RE = ^\d{4}$
YearMatch(s) == Len(s) = 4 /\ \A i \in 1..4 : Ch(s, i) \in DigitChars

\* year if YEAR_RE.match(year) else "0000", for the stripped year
SafeYear(year) == IF YearMatch(year) THEN year ELSE "0000"

build_code(year, doc_type, title) ==
    SafeYear(Strip(year)) \o "_" \o slugify(OrDefault(Strip(doc_type), "article"), TypeSlugMaxLen)
        \o "_" \o slugify(OrDefault(title, "untitled"), SlugMaxLen)

(***************************************************************************)
(* Text normalizer: normalize_title_text                                   *)
(***************************************************************************)
\* length of the whitespace run starting at position i
RECURSIVE SpaceRun(_, _)
SpaceRun(s, i) == IF i <= Len(s) /\ Ch(s, i) \in SpaceChars THEN 1 + SpaceRun(s, i + 1) ELSE 0

\* the leftmost position where P holds, 0 when there is none
MinOrZero(S) == IF S = {} THEN 0 ELSE CHOOSE i \in S : \A k \in S : i <= k
FirstPos(s, P(_)) == MinOrZero({i \in 1..Len(s) : P(i)})

\* ([A-Za-z])-\s+([A-Za-z]) matches at position i
HyphenBreakRun(s, i, n) ==
    /\ Ch(s, i) \in LetterChars
    /\ Ch(s, i + 1) = "-"
    /\ n >= 1
    /\ Ch(s, i + 2 + n) \in LetterChars
HyphenBreakAt(s, i) == HyphenBreakRun(s, i, SpaceRun(s, i + 2))
\* re.sub(r"([A-Za-z])-\s+([A-Za-z])", r"\1-\2", s): matches are taken left to
\* right and do not overlap, so the letter closing one match opens no other
RECURSIVE SubHyphenBreak(_)
\* the match at i ends at the letter at j
HyphenBreakCut(s, i, j) == SubSeq(s, 1, i) \o "-" \o Ch(s, j) \o SubHyphenBreak(DropTo(s, j))
HyphenBreakFrom(s, i) == IF i = 0 THEN s ELSE HyphenBreakCut(s, i, i + 2 + SpaceRun(s, i + 2))
SubHyphenBreak(s) == HyphenBreakFrom(s, FirstPos(s, LAMBDA i : HyphenBreakAt(s, i)))

\* Tele-\s*scope matches at position i, ignoring case
TelescopeRun(s, i, n) ==
    /\ i + 9 + n <= Len(s)
    /\ ToLower(SubSeq(s, i, i + 4)) = "tele-"
    /\ ToLower(SubSeq(s, i + 5 + n, i + 9 + n)) = "scope"
TelescopeAt(s, i) == TelescopeRun(s, i, SpaceRun(s, i + 5))
\* re.sub(r"Tele-\s*scope", "Telescope", s, flags=re.IGNORECASE)
RECURSIVE SubTelescope(_)
TelescopeFrom(s, i) ==
    IF i = 0 THEN s
    ELSE SubSeq(s, 1, i - 1) \o "Telescope" \o SubTelescope(DropTo(s, i + 9 + SpaceRun(s, i + 5)))
SubTelescope(s) == TelescopeFrom(s, FirstPos(s, LAMBDA i : TelescopeAt(s, i)))

\* title.replace("?HE ", "THE ")
RECURSIVE ReplaceQHE(_)
ReplaceQHEFrom(s, i) ==
    IF i = 0 THEN s ELSE SubSeq(s, 1, i - 1) \o "THE " \o ReplaceQHE(DropTo(s, i + 3))
ReplaceQHE(s) == ReplaceQHEFrom(s, FirstPos(s, LAMBDA i : MatchAt(s, i, "?HE ")))

\* The ligature and punctuation table of lines 893-909 maps thirteen
\* non-ASCII code points; the modelled texts are ASCII, which it leaves alone.
normalize_title_text(title) ==
    IF title = "" THEN title
    ELSE StripChars(Strip(SubSpaces(ReplaceQHE(SubTelescope(SubHyphenBreak(title))))), {" ", "-"})

(***************************************************************************)
(* Title scorer: the patterns, score_title_candidate, needs_title_refresh  *)
(***************************************************************************)
\* re.search(r"\b(?:w)\b", s) for a literal w
WordSearch(s, w) ==
    \E i \in 1..Len(s) : Boundary(s, i) /\ MatchAt(s, i, w) /\ Boundary(s, i + Len(w))
\* re.search(r"^(?:w)\b", s) for a literal w
WordPrefix(s, w) == StartsWith(s, w) /\ Boundary(s, Len(w) + 1)

BadTitleExact == {"untitled", "pdf download", "powerpoint presentation"}
BadTitlePrefixes == {"doi:", "pii:", "arxiv:", "journal of", "proceedings of"}
BadTitleExtensions == {"pdf", "dvi", "tif", "djvu", "doc"}
\* BAD_TITLE_RE.search(s). Its last alternative is written r"\\.(?:pdf|...)$" in a
\* raw string: a literal backslash, any one character but a newline, an extension.
BAD_TITLE_RE(s) ==
    \/ s \in BadTitleExact
    \/ \E p \in BadTitlePrefixes : StartsWith(s, p)
    \/ \E e \in BadTitleExtensions :
          /\ EndsWith(s, e)
          /\ Len(s) >= Len(e) + 2
          /\ Ch(s, Len(s) - Len(e) - 1) = "\\"
          /\ Ch(s, Len(s) - Len(e)) /= "\n"

TitleNoiseWords ==
    {"volume", "vol", "vol.", "number", "issn", "pii", "afcrl", "indd", "confidential",
     "submitted", "draft version", "research article"}
TITLE_NOISE_RE(s) == \E w \in TitleNoiseWords : WordSearch(s, w)

TitleSectionWords ==
    {"abstract", "summary", "keyword", "keywords", "index term", "index terms",
     "introduction", "references", "acknowledgment", "acknowledgments",
     "acknowledgement", "acknowledgements"}
\* TITLE_SECTION_RE is anchored at the start; search and match agree on it
TITLE_SECTION_RE(s) == \E w \in TitleSectionWords : WordPrefix(s, w)

TitleAffiliationWords ==
    {"university", "department", "division", "institute", "laboratory", "school",
     "college", "faculty", "center", "centre", "campus", "email"}
TITLE_AFFILIATION_RE(s) == \E w \in TitleAffiliationWords : WordSearch(s, w)

TitleExtraNoiseWords ==
    {"submission", "manuscript", "file reference", "proof", "draft", "confidential",
     "not for distribution", "temp", "view", "export", "online citation"}
TITLE_EXTRA_NOISE_RE(s) == \E w \in TitleExtraNoiseWords : WordSearch(s, w)

TrailingStopwords ==
    {"of", "the", "and", "for", "with", "within", "to", "in", "on", "at", "from",
     "by", "a", "an"}

\* len(s.split()): a word starts at a non-space character that follows a space or the start
WordCount(s) ==
    Cardinality({i \in 1..Len(s) :
        Ch(s, i) \notin SpaceChars /\ (i = 1 \/ Ch(s, i - 1) \in SpaceChars)})
CountIn(s, cs) == Cardinality({i \in 1..Len(s) : Ch(s, i) \in cs})
\* str.isupper(): some cased character and no lowercase one
IsUpper(s) == CountIn(s, UpperChars) > 0 /\ CountIn(s, LowerChars) = 0
\* the starts of the maximal letter runs, re.findall(r"[A-Za-z]+", s)
AlphaWordStarts(s) ==
    {i \in 1..Len(s) : Ch(s, i) \in LetterChars /\ (i = 1 \/ Ch(s, i - 1) \notin LetterChars)}
RECURSIVE LetterRun(_, _)
LetterRun(s, i) == IF i <= Len(s) /\ Ch(s, i) \in LetterChars THEN 1 + LetterRun(s, i + 1) ELSE 0
RECURSIVE DigitRun(_, _)
DigitRun(s, i) == IF i <= Len(s) /\ Ch(s, i) \in DigitChars THEN 1 + DigitRun(s, i + 1) ELSE 0

\* the letter runs of alpha_words that are upper case
UpperWords(candidate, alpha_words) ==
    Cardinality({i \in alpha_words :
        IsUpper(SubSeq(candidate, i, i + LetterRun(candidate, i) - 1))})
\* re.findall(r"\b[A-Z]\.", candidate)
Initials(candidate) ==
    Cardinality({i \in 1..Len(candidate) :
        /\ Boundary(candidate, i)
        /\ Ch(candidate, i) \in UpperChars
        /\ Ch(candidate, i + 1) = "."})
\* re.search(r"\b(?:version|v\d+)\b", lower)
VersionSearch(lower) ==
    \/ WordSearch(lower, "version")
    \/ \E i \in 1..Len(lower) :
          /\ Boundary(lower, i)
          /\ Ch(lower, i) = "v"
          /\ DigitRun(lower, i + 1) >= 1
          /\ Boundary(lower, i + 1 + DigitRun(lower, i + 1))
\* n when cond holds
Points(cond, n) == IF cond THEN n ELSE 0

\* the score of a non-empty stripped candidate, from its counts
ScoreCounts(candidate, lower, words, alnum, letters, digits, commas, alpha_words) ==
      Points(4 <= words /\ words <= 24, 3)
    + Points(24 <= Len(candidate) /\ Len(candidate) <= 180, 3)
    - Points(TITLE_NOISE_RE(lower), 6)
    - Points(TITLE_SECTION_RE(lower), 6)
    - Points(TITLE_EXTRA_NOISE_RE(lower), 6)
    - Points(TITLE_AFFILIATION_RE(lower), 4)
    - Points(BAD_TITLE_RE(lower), 6)
    - Points(DigitRun(lower, 1) >= 4 /\ Boundary(lower, 5), 4)
    - Points(StartsWith(lower, "article "), 4)
    - Points(commas >= 2, 2)
    - Points(commas >= 2 /\ digits > 0, 6)
    - Points(CountCh(candidate, ";") >= 2, 8)
    - Points(Initials(candidate) >= 2, 6)
    - Points(\E i \in 1..Len(candidate) :
                Ch(candidate, i) \in LetterChars /\ Ch(candidate, i + 1) \in DigitChars, 4)
    - Points(/\ Cardinality(alpha_words) >= 4
             /\ 4 * UpperWords(candidate, alpha_words) > 3 * Cardinality(alpha_words), 4)
    - Points(VersionSearch(lower), 2)
    - Points(\E w \in TrailingStopwords :
                EndsWith(lower, w) /\ Boundary(lower, Len(lower) - Len(w) + 1), 4)
    - Points(Contains(candidate, "_"), 4)
    - Points(EndsWith(candidate, "."), 1)
    - Points(alnum > 0 /\ 100 * digits > 24 * alnum, 4)
    - Points(alnum > 0 /\ 10 * letters < 6 * alnum, 3)
    - Points(IsUpper(candidate), 1)

ScoreLower(candidate, lower) ==
    ScoreCounts(candidate, lower, WordCount(candidate), CountIn(candidate, AlnumChars),
                CountIn(candidate, LetterChars), CountIn(candidate, DigitChars),
                CountCh(lower, ","), AlphaWordStarts(candidate))
ScoreStripped(candidate) ==
    IF candidate = "" THEN -100 ELSE ScoreLower(candidate, ToLower(candidate))
score_title_candidate(text) == ScoreStripped(Strip(text))

\* the digit-heavy test of needs_title_refresh
DigitHeavy(digits, words, alnum) ==
    digits >= 6 /\ words <= 14 /\ alnum > 0 /\ 10 * digits > 2 * alnum
\* a refresh gate that knows the bad-title patterns and the underscore only
RefreshBadOnly(candidate, lower) ==
    \/ BAD_TITLE_RE(lower)
    \/ Contains(candidate, "_")

RefreshLower(candidate, lower) ==
    \/ BAD_TITLE_RE(lower)
    \/ TITLE_NOISE_RE(lower)
    \/ Contains(candidate, "_")
    \/ \E w \in {"vol", "vol.", "volume", "number", "issn", "pii"} : WordSearch(lower, w)
    \/ DigitHeavy(CountIn(candidate, DigitChars), WordCount(candidate),
                  CountIn(candidate, AlnumChars))
RefreshNormalized(candidate) ==
    IF candidate = "" THEN TRUE ELSE RefreshLower(candidate, ToLower(candidate))
needs_title_refresh(title) == RefreshNormalized(normalize_title_text(title))

(***************************************************************************)
(* Candidate generator: split_text_blocks, guess_title_from_first_page     *)
(***************************************************************************)
\* str.split("\n")
RECURSIVE SplitLines(_)
SplitFrom(s, i) == IF i = 0 THEN <<s>> ELSE <<SubSeq(s, 1, i - 1)>> \o SplitLines(DropTo(s, i))
SplitLines(s) == SplitFrom(s, FirstPos(s, LAMBDA i : Ch(s, i) = "\n"))

\* re.sub(r"\s+", " ", html.unescape(raw_line)).strip(); the modelled texts hold
\* no character reference, which html.unescape leaves alone
CleanLine(raw_line) == Strip(SubSpaces(raw_line))

\* " ".join(lines)
RECURSIVE JoinSpace(_)
JoinSpace(lines) ==
    IF lines = <<>> THEN ""
    ELSE IF Len(lines) = 1 THEN lines[1]
    ELSE lines[1] \o " " \o JoinSpace(Tail(lines))

\* the loop of split_text_blocks over the remaining raw lines
RECURSIVE BlockLoop(_, _, _, _)
\* one iteration, for the cleaned first line of raw
BlockStep(raw, blocks, current, max_blocks, line) ==
    IF line /= "" THEN BlockLoop(Tail(raw), blocks, Append(current, line), max_blocks)
    ELSE IF current /= <<>>
         THEN IF Len(blocks) + 1 >= max_blocks THEN Append(blocks, current)
              ELSE BlockLoop(Tail(raw), Append(blocks, current), <<>>, max_blocks)
         ELSE BlockLoop(Tail(raw), blocks, current, max_blocks)
BlockLoop(raw, blocks, current, max_blocks) ==
    IF raw = <<>>
    THEN IF current /= <<>> /\ Len(blocks) < max_blocks THEN Append(blocks, current) ELSE blocks
    ELSE BlockStep(raw, blocks, current, max_blocks, CleanLine(raw[1]))

split_text_blocks(text, max_blocks) == BlockLoop(SplitLines(text), <<>>, <<>>, max_blocks)

TitleMaxBlocks == 12
TitleMaxLines == 60
TitleMaxStarts == 25

\* candidates of the blocks, up to the first block that opens a body section
\* the candidates of one block: its first line, first two and first three lines
BlockTakes(block) ==
    SelectSeq([t \in 1..3 |-> IF Len(block) >= t THEN Strip(JoinSpace(SubSeq(block, 1, t))) ELSE ""],
              LAMBDA c : c /= "")
RECURSIVE BlockCandidates(_)
BlockCandidates(blocks) ==
    IF blocks = <<>> THEN <<>>
    ELSE IF TITLE_SECTION_RE(ToLower(blocks[1][1])) THEN <<>>
    ELSE BlockTakes(blocks[1]) \o BlockCandidates(Tail(blocks))

\* the non-empty cleaned lines up to the first body-section line, at most 60
RECURSIVE TitleLines(_, _)
\* one iteration, for the cleaned first line of raw
TitleLinesStep(raw, lines, clean) ==
    IF clean = "" THEN TitleLines(Tail(raw), lines)
    ELSE IF TITLE_SECTION_RE(ToLower(clean)) THEN lines
    ELSE IF Len(lines) + 1 >= TitleMaxLines THEN Append(lines, clean)
    ELSE TitleLines(Tail(raw), Append(lines, clean))
TitleLines(raw, lines) ==
    IF raw = <<>> THEN lines ELSE TitleLinesStep(raw, lines, CleanLine(raw[1]))

RECURSIVE LineCandidates(_, _)
LineCandidates(lines, idx) ==
    IF idx > Len(lines) \/ idx > TitleMaxStarts THEN <<>>
    ELSE <<lines[idx]>>
         \o (IF idx + 1 <= Len(lines) THEN <<lines[idx] \o " " \o lines[idx + 1]>> ELSE <<>>)
         \o LineCandidates(lines, idx + 1)

\* the selection loop: the first candidate with the strictly highest score
RECURSIVE BestCandidate(_, _, _, _)
\* one iteration, for the normalized first candidate, its key and its score
BestStep(cands, seen, best, best_score, candidate, key, score) ==
    IF candidate = "" \/ key \in seen THEN BestCandidate(Tail(cands), seen, best, best_score)
    ELSE IF score > best_score
         THEN BestCandidate(Tail(cands), seen \cup {key}, candidate, score)
         ELSE BestCandidate(Tail(cands), seen \cup {key}, best, best_score)
BestNormalized(cands, seen, best, best_score, candidate) ==
    BestStep(cands, seen, best, best_score, candidate, ToLower(candidate),
             score_title_candidate(candidate))
BestCandidate(cands, seen, best, best_score) ==
    IF cands = <<>> THEN IF best_score > 0 THEN best ELSE ""
    ELSE BestNormalized(cands, seen, best, best_score,
                        StripChars(normalize_title_text(cands[1]), {" ", ".", ":", ";", "-", "|"}))

guess_title_from_first_page(text) ==
    BestCandidate(BlockCandidates(split_text_blocks(text, TitleMaxBlocks))
                    \o LineCandidates(TitleLines(SplitLines(text), <<>>), 1),
                  {}, "", -100)

(***************************************************************************)
(* Field inferencer: infer_year, infer_type, extract_title, extract_doi    *)
(***************************************************************************)
\* a 19xx or 20xx token starts at position i: (19|20)\d{2}
YearAt(s, i) ==
    /\ (MatchAt(s, i, "19") \/ MatchAt(s, i, "20"))
    /\ Ch(s, i + 2) \in DigitChars
    /\ Ch(s, i + 3) \in DigitChars
\* re.search(r"(19|20)\d{2}", s): the leftmost match, "" when there is none
YearFrom(s, i) == IF i = 0 THEN "" ELSE SubSeq(s, i, i + 3)
FirstYear(s) == YearFrom(s, FirstPos(s, LAMBDA i : YearAt(s, i)))

\* ARXIV_RE matches at i: (?<!\d)(\d{2})(\d{2})\.\d{4,5}(?:v\d+)?(?!\d)
ArxivAt(s, i) ==
    /\ Ch(s, i - 1) \notin DigitChars
    /\ \A k \in 0..3 : Ch(s, i + k) \in DigitChars
    /\ Ch(s, i + 4) = "."
    /\ DigitRun(s, i + 5) \in {4, 5}
\* ARXIV_TEXT_RE matches at i: arxiv:\s*(\d{4})\.(\d{4,5}), ignoring case
ArxivTextFrom(s, i, j) ==
    /\ ToLower(SubSeq(s, i, i + 5)) = "arxiv:"
    /\ \A k \in 0..3 : Ch(s, j + k) \in DigitChars
    /\ Ch(s, j + 4) = "."
    /\ DigitRun(s, j + 5) >= 4
ArxivTextAt(s, i) == i + 5 <= Len(s) /\ ArxivTextFrom(s, i, i + 6 + SpaceRun(s, i + 6))

\* the numbers of re.findall(r"\b(?:19|20)\d{2}\b", text)
TextYears(s) ==
    {i \in 1..Len(s) : Boundary(s, i) /\ YearAt(s, i) /\ Boundary(s, i + 4)}
\* int() of a four-digit token
DigitVal(c) == CHOOSE n \in 0..9 : Ch(DecDigits, n + 1) = c
Year4Val(s) ==
    1000 * DigitVal(Ch(s, 1)) + 100 * DigitVal(Ch(s, 2)) + 10 * DigitVal(Ch(s, 3)) + DigitVal(Ch(s, 4))

\* max(int(y) for y in years) as a string, for the match positions tys in text
MaxYear(text, tys) ==
    LET i == CHOOSE j \in tys :
                \A k \in tys : Year4Val(SubSeq(text, k, k + 3)) <= Year4Val(SubSeq(text, j, j + 3))
    IN  SubSeq(text, i, i + 3)
\* the first two digits of the arXiv number whose digits start at position d
ArxivYear(s, d) == "20" \o SubSeq(s, d, d + 1)

\* a year inference that prefers the latest year of the text to every other source
LatestTextYear(creation_year, name_arxiv, text_arxiv, name_year, filename, text) ==
    IF TextYears(text) /= {} THEN MaxYear(text, TextYears(text))
    ELSE IF creation_year /= "" THEN creation_year
    ELSE IF name_arxiv /= 0 THEN ArxivYear(filename, name_arxiv)
    ELSE IF text_arxiv /= 0 THEN ArxivYear(text, text_arxiv + 6 + SpaceRun(text, text_arxiv + 6))
    ELSE IF name_year /= "" THEN name_year
    ELSE "0000"

\* infer_year, from the creation-date year, the leftmost arXiv number of the file
\* name, the leftmost arXiv reference of the text, and the file-name year
YearChoice(creation_year, name_arxiv, text_arxiv, name_year, filename, text) ==
    IF creation_year /= "" THEN creation_year
    ELSE IF name_arxiv /= 0 THEN ArxivYear(filename, name_arxiv)
    ELSE IF text_arxiv /= 0 THEN ArxivYear(text, text_arxiv + 6 + SpaceRun(text, text_arxiv + 6))
    ELSE IF name_year /= "" THEN name_year
    ELSE IF TextYears(text) /= {} THEN MaxYear(text, TextYears(text))
    ELSE "0000"
infer_year(filename, creation, text) ==
    YearChoice(FirstYear(creation),
               FirstPos(filename, LAMBDA i : ArxivAt(filename, i)),
               FirstPos(text, LAMBDA i : ArxivTextAt(text, i)),
               FirstYear(filename), filename, text)

\* a type inference that tests the arXiv keyword before the others
ArxivFirst(haystack) ==
    IF Contains(haystack, "arxiv") THEN "preprint"
    ELSE IF Contains(haystack, "thesis") \/ Contains(haystack, "phd") THEN "thesis"
    ELSE IF Contains(haystack, "slides") \/ Contains(haystack, "presentation") THEN "slides"
    ELSE IF Contains(haystack, "poster") THEN "poster"
    ELSE IF Contains(haystack, "book") THEN "book"
    ELSE "article"

\* infer_type, for the lower-cased haystack
TypeChoice(haystack) ==
    IF Contains(haystack, "thesis") \/ Contains(haystack, "phd") THEN "thesis"
    ELSE IF Contains(haystack, "slides") \/ Contains(haystack, "presentation") THEN "slides"
    ELSE IF Contains(haystack, "poster") THEN "poster"
    ELSE IF Contains(haystack, "arxiv") THEN "preprint"
    ELSE IF Contains(haystack, "book") THEN "book"
    ELSE "article"
infer_type(filename, creator, title) ==
    TypeChoice(ToLower(filename \o " " \o title \o " " \o creator))

\* Path(filename).stem for a name with one suffix
Stem(filename) == IF EndsWith(filename, ".pdf") THEN TakeTo(filename, Len(filename) - 4) ELSE filename

\* a title resolution that prefers the first-page guess to the embedded title
GuessFirst(info_title, guessed, filename) ==
    IF guessed /= "" /\ ~needs_title_refresh(guessed) THEN guessed
    ELSE IF info_title /= "" /\ ~needs_title_refresh(info_title) THEN info_title
    ELSE IF guessed /= "" THEN guessed
    ELSE IF info_title /= "" THEN info_title
    ELSE normalize_title_text(ReplaceCh(Stem(filename), "_", " "))

\* extract_title, for the normalized embedded title and first-page guess
TitleChoice(info_title, guessed, filename) ==
    IF info_title /= "" /\ ~needs_title_refresh(info_title) THEN info_title
    ELSE IF guessed /= "" /\ ~needs_title_refresh(guessed) THEN guessed
    ELSE IF info_title /= "" THEN info_title
    ELSE IF guessed /= "" THEN guessed
    ELSE normalize_title_text(ReplaceCh(Stem(filename), "_", " "))
extract_title(info_title_raw, text, filename) ==
    TitleChoice(normalize_title_text(Strip(info_title_raw)),
                normalize_title_text(guess_title_from_first_page(text)), filename)

extract_author(info_author) == Strip(info_author)

\* DOI_RE matches at i: \b10\.\d{4,9}/[^\s"<>]+
DoiStop == SpaceChars \cup {"\"", "<", ">"}
RECURSIVE DoiRun(_, _)
DoiRun(s, i) == IF i <= Len(s) /\ Ch(s, i) \notin DoiStop THEN 1 + DoiRun(s, i + 1) ELSE 0
\* the match at i with d digits after "10."
DoiDigits(s, i, d) ==
    /\ Boundary(s, i)
    /\ MatchAt(s, i, "10.")
    /\ d >= 4 /\ d <= 9
    /\ Ch(s, i + 3 + d) = "/"
    /\ DoiRun(s, i + 4 + d) >= 1
DoiAt(s, i) == DoiDigits(s, i, DigitRun(s, i + 3))
DoiCut(text, i, d) ==
    RStrip(SubSeq(text, i, i + 3 + d + DoiRun(text, i + 4 + d)), {".", ")", "]", ";", ",", "\""})
DoiFrom(text, i) == IF i = 0 THEN "" ELSE DoiCut(text, i, DigitRun(text, i + 3))
extract_doi(text) == DoiFrom(text, FirstPos(text, LAMBDA i : DoiAt(text, i)))

\* the configuration file CONFIGS/config.json read by load_config: the
\* my_keywords entries after normalize_keyword_config, tags in ascending order
Config == <<[tag |-> "caching", terms |-> <<"Caching", "cache">>]>>

\* suggest_my_keywords: the tags with a term in the text, sorted and joined by ", "
RECURSIVE JoinComma(_)
JoinComma(tags) ==
    IF tags = <<>> THEN ""
    ELSE IF Len(tags) = 1 THEN tags[1]
    ELSE tags[1] \o ", " \o JoinComma(Tail(tags))
\* the tags of the matching entries
TagsOf(matches) == JoinComma([k \in 1..Len(matches) |-> matches[k].tag])
\* the entries with a term in the lower-cased text
MatchesIn(text_lower, config) ==
    SelectSeq(config, LAMBDA entry :
        \E k \in 1..Len(entry.terms) : Contains(text_lower, ToLower(entry.terms[k])))
suggest_my_keywords(text, config) ==
    IF text = "" THEN "" ELSE TagsOf(MatchesIn(ToLower(text), config))

(***************************************************************************)
(* The library directory, the external providers and the metadata store    *)
(***************************************************************************)
\* FIELDS
FIELDS ==
    <<"code", "type", "title", "journal", "year", "doi", "author", "keywords",
      "my_keywords", "star", "unread", "added_at", "notes">>

\* The documents a user may put into the library: the file name (stem) the user
\* gives it, what pdfinfo reports for the file (Title, Author, CreationDate,
\* Creator), the text pdftotext extracts from its first page and the text of the
\* pages after it. Document 1 is a file the tools read nothing from; documents 2
\* and 3 are two different papers with the same embedded title and year.
DocIds == {1, 2, 3}
Library ==
    [d \in DocIds |->
        CASE d = 1 -> [name |-> "2020_mytest",
                       Title |-> "", Author |-> "", CreationDate |-> "", Creator |-> "",
                       text |-> "", rest |-> ""]
          [] d = 2 -> [name |-> "lee_caching",
                       Title |-> "Deep Nets for Caching", Author |-> " Ann Lee",
                       CreationDate |-> "D:20190304101500", Creator |-> "LaTeX",
                       text |-> "Deep Nets for Caching\nAnn Lee\n\nSee doi:10.1234/abc.",
                       rest |-> "\n\nAbstract\nWe study caching with deep nets.\n\n1. Introduction\nCaching is old."]
          [] d = 3 -> [name |-> "chen_caching",
                       Title |-> "Deep Nets for Caching", Author |-> "Bo Chen",
                       CreationDate |-> "D:20191110", Creator |-> "",
                       text |-> "", rest |-> ""]]

\* run_pdfinfo and run_pdftotext_*: {} and "" when the tool is missing or fails
NoInfo == [Title |-> "", Author |-> "", CreationDate |-> "", Creator |-> ""]
run_pdfinfo(d, ok) ==
    IF ok THEN [k \in {"Title", "Author", "CreationDate", "Creator"} |-> Strip(Library[d][k])] ELSE NoInfo
run_pdftotext_first_page(d, ok) == IF ok THEN Library[d].text ELSE ""
run_pdftotext_full(d, ok) == IF ok THEN Library[d].text \o Library[d].rest ELSE ""

\* ord() of the characters of the modelled file names, by position in ASCII order
AsciiChars == " \",-.0123456789ABCDEFGHIJKLMNOPQRSTUVWXYZ_abcdefghijklmnopqrstuvwxyz"
Ord(c) == CHOOSE i \in 1..Len(AsciiChars) : Ch(AsciiChars, i) = c
RECURSIVE StrLess(_, _)
StrLess(a, b) ==
    IF b = "" THEN FALSE
    ELSE IF a = "" THEN TRUE
    ELSE IF Ch(a, 1) = Ch(b, 1) THEN StrLess(Tail(a), Tail(b))
    ELSE Ord(Ch(a, 1)) < Ord(Ch(b, 1))
\* sorted(LIB_DIR.glob("*.pdf")) for a set of stems: ordered by file name
RECURSIVE SortedStems(_)
SortedFrom(S, m) == <<m>> \o SortedStems(S \ {m})
SortedStems(S) ==
    IF S = {} THEN <<>>
    ELSE SortedFrom(S, CHOOSE a \in S : \A b \in S \ {a} : StrLess(a \o ".pdf", b \o ".pdf"))

(***************************************************************************)
(* State                                                                   *)
(***************************************************************************)
MaxPdfs == 2
MaxDay == 2
MaxEdits == 1
MaxCmds == 2
MaxInterrupts == 1

VARIABLES
    fs,        \* the library directory PDFs/: file stem -> the document stored under it
    store,     \* METADATA/metadata.csv: the sequence of rows under the header FIELDS
    today,     \* the current day (UTC) read by datetime.now
    edits,     \* how many times the user has edited the store by hand
    cmds,      \* how many commands have run to completion
    interrupts, \* how many scans have been interrupted
    pc,        \* "idle", or "scan" while scan_pdfs is inside its loop
    dry_run,   \* scan_pdfs: the dry_run argument of the running scan
    tools,     \* scan_pdfs: whether pdfinfo and pdftotext succeed during the running scan
    existing,  \* scan_pdfs: load_metadata() at the start of the run, code -> row
    paths,     \* scan_pdfs: sorted(LIB_DIR.glob("*.pdf")) at the start of the run
    rows,      \* scan_pdfs: the rows built so far
    allocs,    \* scan_pdfs: the locals of each finished iteration
    op,        \* history: the command that completed last, "env" once the user has acted since
    hist,      \* history: the rows the documents had before an interrupted scan, the
               \* abstracts a rebuild found
    abstracts, \* METADATA/abstracts.csv: the sequence of rows under the header code,abstract
    call       \* a call of one of the text functions: its arguments and, once made, its result

vars == <<fs, store, today, edits, cmds, interrupts, pc, dry_run, tools, existing, paths, rows, allocs, op, hist,
          abstracts, call>>

Emp == [x \in {} |-> ""]
NoOp == [cmd |-> "env", dry |-> FALSE, rename |-> FALSE, force |-> FALSE, ok |-> TRUE,
         from_pdfs |-> FALSE]
NoHist == [mode |-> "none", owned |-> Emp]
NoCall == [fn |-> "none"]
Files(f) == DOMAIN f
Range(s) == {s[i] : i \in DOMAIN s}

\* code_to_rel_pdf_path / row_pdf_path: the stem under PDFs/ a row points to; a row
\* with an empty code points to top/__missing__.pdf, outside the library directory
MissingPath == "/__missing__"
row_pdf_path(row) == IF Strip(row.code) = "" THEN MissingPath ELSE Strip(row.code)

\* load_metadata: the rows keyed by stripped code, a later row replacing an earlier one
LastCoded(st, c) ==
    CHOOSE i \in DOMAIN st : Strip(st[i].code) = c /\ \A j \in DOMAIN st : Strip(st[j].code) = c => j <= i
load_metadata(st) ==
    [c \in {Strip(st[i].code) : i \in DOMAIN st} \ {""} |-> st[LastCoded(st, c)]]

\* datetime.now(timezone.utc).strftime("%Y-%m-%d") on day `day` of the modelled month
DateStr(day) == "2026-11-" \o (IF day < 10 THEN "0" ELSE "") \o IntToStr(day)

\* Path.rename: the file moves to the new name, replacing a file already there
Rename(f, old, new) == [n \in (DOMAIN f \ {old}) \cup {new} |-> IF n = new THEN f[old] ELSE f[n]]

\* an allocator that takes the base code whatever is stored there
TakeBase(base_code, current_path, files) == base_code

\* an allocator that never recognises the document's own file
RECURSIVE ProbeOthers(_, _, _, _)
ProbeOthers(base_code, candidate, suffix, files) ==
    IF candidate \notin files THEN candidate
    ELSE ProbeOthers(base_code, base_code \o "_" \o IntToStr(suffix), suffix + 1, files)
NoSelfMatch(base_code, current_path, files) == ProbeOthers(base_code, base_code, 2, files)

(***************************************************************************)
(* Identifier allocator: ensure_available_code                             *)
(***************************************************************************)
RECURSIVE Probe(_, _, _, _, _)
Probe(base_code, candidate, suffix, current_path, files) ==
    IF candidate \notin files \/ candidate = current_path THEN candidate
    ELSE Probe(base_code, base_code \o "_" \o IntToStr(suffix), suffix + 1, current_path, files)

ensure_available_code(base_code, current_path, files) ==
    Probe(base_code, base_code, 2, current_path, files)

(***************************************************************************)
(* Record merger: the row scan_pdfs builds for one PDF                     *)
(***************************************************************************)
\* prev.get(field, default) for prev = existing.get(old_code, {}): a row read
\* from the store has every field of FIELDS, so the default is used only when
\* there is no prior row
PrevGet(ex, old_code, field, default) ==
    IF old_code \in DOMAIN ex THEN ex[old_code][field] ELSE default

\* lines 667-669: the tags suggested when the prior row has none
auto_tags(ex, old_code, inferred) ==
    IF PrevGet(ex, old_code, "my_keywords", "") = ""
    THEN suggest_my_keywords(inferred.title \o "\n" \o PrevGet(ex, old_code, "keywords", ""), Config)
    ELSE ""

MergeRow(ex, old_code, code, inferred, day) ==
        [code |-> code,
         type |-> PrevGet(ex, old_code, "type", inferred.doc_type),
         title |-> PrevGet(ex, old_code, "title", inferred.title),
         journal |-> PrevGet(ex, old_code, "journal", ""),
         year |-> PrevGet(ex, old_code, "year", inferred.year),
         doi |-> PrevGet(ex, old_code, "doi", inferred.doi),
         author |-> PrevGet(ex, old_code, "author", inferred.author),
         keywords |-> PrevGet(ex, old_code, "keywords", ""),
         my_keywords |-> PrevGet(ex, old_code, "my_keywords", auto_tags(ex, old_code, inferred)),
         star |-> PrevGet(ex, old_code, "star", ""),
         unread |-> PrevGet(ex, old_code, "unread", ""),
         added_at |-> PrevGet(ex, old_code, "added_at", DateStr(day)),
         notes |-> PrevGet(ex, old_code, "notes", "")]

\* lines 648-656 of scan_pdfs: what one iteration infers for a PDF with the
\* pdfinfo fields `info`, the first-page text `text` and the file name `filename`
InferTyped(info, text, title, year, doc_type) ==
    [title |-> title, year |-> year, doc_type |-> doc_type,
     author |-> extract_author(info.Author), doi |-> extract_doi(text),
     base_code |-> build_code(year, doc_type, title)]
InferTitled(info, text, filename, title) ==
    InferTyped(info, text, title, infer_year(filename, info.CreationDate, text),
               infer_type(filename, info.Creator, title))
InferFrom(info, text, filename) ==
    InferTitled(info, text, filename, extract_title(info.Title, text, filename))
\* for document d stored under the name `stem`
InferFor(d, stem, ok) ==
    InferFrom(run_pdfinfo(d, ok), run_pdftotext_first_page(d, ok), stem \o ".pdf")

\* The inference is a function of the document and its file name alone. Its
\* results for the names a document gets in up to k runs (its upload name, then
\* the codes inferred for the names before, bare or with the suffix _2) are
\* computed once and looked up; any other name is computed when it occurs.
InferRows(d, stems) == [n \in stems |-> [ok \in BOOLEAN |-> InferFor(d, n, ok)]]
CodesOf(tab) == {tab[n][ok].base_code : n \in DOMAIN tab, ok \in BOOLEAN}
NextStems(tab) == DOMAIN tab \cup CodesOf(tab) \cup {c \o "_2" : c \in CodesOf(tab)}
RECURSIVE InferRowsAt(_, _)
InferRowsAt(d, k) ==
    InferRows(d, IF k = 0 THEN {Library[d].name} ELSE NextStems(InferRowsAt(d, k - 1)))
InferTable == [d \in DocIds |-> InferRowsAt(d, 2)]
InferLookup(tab, d, stem, ok) ==
    IF stem \in DOMAIN tab THEN tab[stem][ok] ELSE InferFor(d, stem, ok)
Infer(f, stem, ok) == InferLookup(InferTable[f[stem]], f[stem], stem, ok)

(***************************************************************************)
(* scan_pdfs, one action per loop iteration                                *)
(***************************************************************************)
\* the library, the store and the run state of a fresh checkout
Constructed ==
    /\ fs = Emp
    /\ store = <<>>
    /\ today = 1
    /\ edits = 0
    /\ cmds = 0
    /\ interrupts = 0
    /\ pc = "idle"
    /\ dry_run = FALSE
    /\ tools = TRUE
    /\ existing = Emp
    /\ paths = <<>>
    /\ rows = <<>>
    /\ allocs = <<>>
    /\ op = NoOp
    /\ hist = NoHist
Init ==
    /\ Constructed
    /\ abstracts = <<>>
    /\ call = NoCall

\* lines 640-644: the store and the directory listing are read once
ScanStart(dry, ok) ==
    /\ pc = "idle"
    /\ pc' = "scan"
    /\ dry_run' = dry
    /\ tools' = ok
    /\ existing' = load_metadata(store)
    /\ paths' = SortedStems(Files(fs))
    /\ rows' = <<>>
    /\ allocs' = <<>>
    /\ UNCHANGED <<fs, store, today, edits, cmds, interrupts, op, hist, abstracts, call>>

\* an iteration that renames the file in a dry run as well
RenamesInDryRun(path, inferred, code) ==
    /\ fs' = IF path /= code THEN Rename(fs, path, code) ELSE fs
    /\ rows' = Append(rows, MergeRow(existing, path, IF dry_run THEN path ELSE code,
                                     inferred, today))
    /\ allocs' = Append(allocs, [path |-> path, doc |-> fs[path], base_code |-> inferred.base_code,
                                  code |-> code, files |-> Files(fs), inferred |-> inferred])
\* lines 659-685: the iteration for `path` once `code` is allocated; old_code
\* is the stem of path, new_path the allocated code unless the run is a dry run
ScanAllocated(path, inferred, code) ==
    /\ fs' = IF ~dry_run /\ path /= code THEN Rename(fs, path, code) ELSE fs
    /\ rows' = Append(rows, MergeRow(existing, path, IF dry_run THEN path ELSE code,
                                     inferred, today))
    /\ allocs' = Append(allocs, [path |-> path, doc |-> fs[path], base_code |-> inferred.base_code,
                                  code |-> code, files |-> Files(fs), inferred |-> inferred])
ScanIteration(path, inferred) ==
    ScanAllocated(path, inferred, ensure_available_code(inferred.base_code, path, Files(fs)))

\* lines 646-685: one iteration of the loop
ScanStep ==
    /\ pc = "scan"
    /\ Len(rows) < Len(paths)
    /\ ScanIteration(paths[Len(rows) + 1], Infer(fs, paths[Len(rows) + 1], tools))
    /\ UNCHANGED <<store, today, edits, cmds, interrupts, pc, dry_run, tools, existing, paths, op, hist, abstracts, call>>

\* lines 687-688: save_metadata(rows)
ScanFinish ==
    /\ pc = "scan"
    /\ Len(rows) = Len(paths)
    /\ store' = rows
    /\ cmds' = cmds + 1
    /\ pc' = "idle"
    /\ op' = [NoOp EXCEPT !.cmd = "scan", !.dry = dry_run, !.ok = tools]
    /\ hist' = NoHist
    /\ dry_run' = FALSE
    /\ tools' = TRUE
    /\ existing' = Emp
    /\ paths' = <<>>
    /\ rows' = <<>>
    /\ allocs' = <<>>
    /\ UNCHANGED <<fs, today, edits, interrupts, abstracts, call>>

\* the document behind the i-th listed path of the running scan
DocOfPath(i) == IF i <= Len(rows) THEN fs[rows[i].code] ELSE fs[paths[i]]

\* the process is killed inside the loop, after an iteration and before
\* save_metadata: the renames made so far stay, the rows built are lost
ScanInterrupt ==
    /\ pc = "scan"
    /\ Len(rows) >= 1
    /\ interrupts < MaxInterrupts
    /\ interrupts' = interrupts + 1
    /\ pc' = "idle"
    /\ op' = NoOp
    /\ hist' = IF dry_run \/ hist.mode = "interrupted" THEN hist
               ELSE [mode |-> "interrupted",
                     owned |-> [d \in {DocOfPath(i) : i \in {j \in DOMAIN paths : paths[j] \in DOMAIN existing}} |->
                                  existing[paths[CHOOSE i \in DOMAIN paths : DocOfPath(i) = d]]]]
    /\ dry_run' = FALSE
    /\ tools' = TRUE
    /\ existing' = Emp
    /\ paths' = <<>>
    /\ rows' = <<>>
    /\ allocs' = <<>>
    /\ UNCHANGED <<fs, store, today, edits, cmds, abstracts, call>>

(***************************************************************************)
(* What the user supplies: hand edits and BibTeX files                     *)
(***************************************************************************)
\* the values the user writes into a row of metadata.csv by hand
UserEdits == {[field |-> "notes", value |-> "read again"], [field |-> "title", value |-> "Caching, Revisited"]}

\* what parse_bibtex_entries returns for the BibTeX files the user imports
BibFiles ==
    {<<[title |-> "Deep nets for caching", doi |-> "", year |-> "in press",
        author |-> "Lee, Ann", journal |-> "J. Caching"]>>,
     <<[title |-> "", doi |-> "10.1234/ABC", year |-> "2021",
        author |-> "", journal |-> "Cache Letters"]>>}

(***************************************************************************)
(* The title functions on the titles, years and types that occur: computed *)
(* once and looked up; any other argument is computed when it occurs       *)
(***************************************************************************)
InferredOf(tab) == UNION {{tab[d][n][ok] : n \in DOMAIN tab[d], ok \in BOOLEAN} : d \in DocIds}
BibEntries == UNION {Range(b) : b \in BibFiles}
RawTitlesOf(inferred) ==
    {r.title : r \in inferred}
    \cup {e.value : e \in {x \in UserEdits : x.field = "title"}}
    \cup {b.title : b \in BibEntries}
WithNormalized(titles) == titles \cup {normalize_title_text(t) : t \in titles}
KnownTitles == WithNormalized(RawTitlesOf(InferredOf(InferTable)))
YearsOf(inferred) == {r.year : r \in inferred} \cup {b.year : b \in BibEntries}
TypesOf(inferred) == {r.doc_type : r \in inferred}
NormTable == [t \in KnownTitles |-> normalize_title_text(t)]
RefreshTable == [t \in KnownTitles |-> needs_title_refresh(t)]
ScoreTable == [t \in KnownTitles |-> score_title_candidate(t)]
CodesFor(inferred, titles) ==
    [y \in YearsOf(inferred), ty \in TypesOf(inferred), t \in titles |-> build_code(y, ty, t)]
CodeTable == CodesFor(InferredOf(InferTable), DOMAIN NormTable)
NormLookup(tab, t) == IF t \in DOMAIN tab THEN tab[t] ELSE normalize_title_text(t)
RefreshLookup(tab, t) == IF t \in DOMAIN tab THEN tab[t] ELSE needs_title_refresh(t)
ScoreLookup(tab, t) == IF t \in DOMAIN tab THEN tab[t] ELSE score_title_candidate(t)
CodeLookup(tab, y, ty, t) == IF <<y, ty, t>> \in DOMAIN tab THEN tab[y, ty, t] ELSE build_code(y, ty, t)
NormalizeTitle(t) == NormLookup(NormTable, t)
NeedsRefresh(t) == RefreshLookup(RefreshTable, t)
ScoreTitle(t) == ScoreLookup(ScoreTable, t)
BuildCode(y, ty, t) == CodeLookup(CodeTable, y, ty, t)

(***************************************************************************)
(* cleanup_titles                                                          *)
(***************************************************************************)
\* lines 940-948: the extracted title replaces `normalized` when it scores
\* better, or scores above zero under force_titles
BetterTitle(normalized, extracted, extracted_score, force_titles) ==
    IF extracted /= ""
       /\ \/ (force_titles /\ extracted_score > 0)
          \/ /\ extracted_score > ScoreTitle(normalized)
             /\ extracted_score > 0
             /\ ~NeedsRefresh(extracted)
    THEN extracted
    ELSE normalized
ScoredTitle(normalized, extracted, force_titles) ==
    BetterTitle(normalized, extracted, ScoreTitle(extracted), force_titles)

\* lines 932-949: the title the row gets from its PDF, or `normalized`;
\* extract_title(info, text, path.name) is inferred as scan_pdfs infers it
RefreshTitle(row, normalized, f, from_pdfs, force_titles, ok) ==
    IF from_pdfs /\ (force_titles \/ NeedsRefresh(normalized))
       /\ row_pdf_path(row) \in Files(f)
    THEN ScoredTitle(normalized, NormalizeTitle(Infer(f, row_pdf_path(row), ok).title), force_titles)
    ELSE normalized

\* lines 958-973: the code and the file of a row under --rename
CleanupRename(row, f, dry, updated, current_code, old_path, code) ==
    [row |-> IF code /= current_code THEN [row EXCEPT !.code = code] ELSE row,
     fs |-> IF old_path \in Files(f) /\ old_path /= code /\ ~dry THEN Rename(f, old_path, code) ELSE f,
     changed |-> updated \/ (old_path \in Files(f) /\ old_path /= code) \/ code /= current_code]
CleanupCoded(row, f, dry, updated, current_code, old_path) ==
    CleanupRename(row, f, dry, updated, current_code, old_path,
        ensure_available_code(
            BuildCode(OrDefault(Strip(row.year), "0000"), OrDefault(Strip(row.type), "article"),
                      OrDefault(row.title, OrDefault(current_code, "untitled"))),
            old_path, Files(f)))
\* lines 951-956
CleanupTitled(row, f, rename_files, dry, updated) ==
    IF ~rename_files THEN [row |-> row, fs |-> f, changed |-> updated]
    ELSE CleanupCoded(row, f, dry, updated, Strip(row.code), row_pdf_path(row))
CleanupNormalized(row0, normalized, f, rename_files, dry) ==
    IF normalized /= "" /\ normalized /= row0.title
    THEN CleanupTitled([row0 EXCEPT !.title = normalized], f, rename_files, dry, TRUE)
    ELSE CleanupTitled(row0, f, rename_files, dry, FALSE)

\* lines 928-973: one iteration for `row0`, on the directory f; the result holds
\* the row, the directory, and whether a title, a code or a file changed
CleanupRow(row0, f, rename_files, dry, from_pdfs, force_titles, ok) ==
    CleanupNormalized(row0,
        RefreshTitle(row0, NormalizeTitle(row0.title), f, from_pdfs, force_titles, ok),
        f, rename_files, dry)

\* the loop over load_rows(): the rows and the directory after rows i..Len(rs)
RECURSIVE CleanupLoop(_, _, _, _, _, _, _, _, _)
CleanupNext(rs, i, r, changed, rename_files, dry, from_pdfs, force_titles, ok) ==
    CleanupLoop([rs EXCEPT ![i] = r.row], i + 1, r.fs, changed \/ r.changed,
                rename_files, dry, from_pdfs, force_titles, ok)
CleanupLoop(rs, i, f, changed, rename_files, dry, from_pdfs, force_titles, ok) ==
    IF i > Len(rs) THEN [rows |-> rs, fs |-> f, changed |-> changed]
    ELSE CleanupNext(rs, i, CleanupRow(rs[i], f, rename_files, dry, from_pdfs, force_titles, ok),
                     changed, rename_files, dry, from_pdfs, force_titles, ok)

\* the flag combinations of the cleanup command that are run
CleanupRuns ==
    {[rename_files |-> TRUE, dry_run |-> FALSE, from_pdfs |-> FALSE, force_titles |-> FALSE],
     [rename_files |-> TRUE, dry_run |-> TRUE, from_pdfs |-> FALSE, force_titles |-> FALSE],
     [rename_files |-> FALSE, dry_run |-> FALSE, from_pdfs |-> TRUE, force_titles |-> FALSE],
     [rename_files |-> TRUE, dry_run |-> FALSE, from_pdfs |-> TRUE, force_titles |-> TRUE]}

\* lines 975-976: the store is rewritten when something changed and the run is
\* not a dry run
CleanupSave(c, r) ==
    /\ fs' = r.fs
    /\ store' = IF r.changed /\ ~c.dry_run THEN r.rows ELSE store

\* cleanup_titles(rename_files, dry_run, from_pdfs, force_titles)
Cleanup(c, ok) ==
    /\ pc = "idle"
    /\ cmds' = cmds + 1
    /\ CleanupSave(c, CleanupLoop(store, 1, fs, FALSE, c.rename_files, c.dry_run, c.from_pdfs,
                                  c.force_titles, ok))
    /\ op' = [NoOp EXCEPT !.cmd = "cleanup", !.dry = c.dry_run, !.rename = c.rename_files,
                           !.from_pdfs = c.from_pdfs, !.force = c.force_titles, !.ok = ok]
    /\ hist' = NoHist
    /\ UNCHANGED <<today, edits, interrupts, pc, dry_run, tools, existing, paths, rows, allocs, abstracts, call>>

(***************************************************************************)
(* The tag command                                                         *)
(***************************************************************************)
\* main, lines 1505-1508: the suggested tags replace my_keywords when there are any
TagWith(row, tags) == IF tags /= "" THEN [row EXCEPT !.my_keywords = tags] ELSE row

\* main, lines 1495-1508: one iteration
TagRow(row, f, force, ok) ==
    IF row.my_keywords /= "" /\ ~force THEN row
    ELSE IF row_pdf_path(row) \notin Files(f) THEN row
    ELSE TagWith(row, suggest_my_keywords(row.title \o "\n" \o row.keywords \o "\n"
                                            \o run_pdftotext_full(f[row_pdf_path(row)], ok), Config))

\* main, lines 1491-1510: save_metadata(rows) runs in every case
Tag(force, ok) ==
    /\ pc = "idle"
    /\ cmds' = cmds + 1
    /\ store' = [i \in DOMAIN store |-> TagRow(store[i], fs, force, ok)]
    /\ op' = [NoOp EXCEPT !.cmd = "tag", !.force = force]
    /\ hist' = NoHist
    /\ UNCHANGED <<fs, today, edits, interrupts, pc, dry_run, tools, existing, paths, rows, allocs, abstracts, call>>

(***************************************************************************)
(* import_bibtex                                                           *)
(***************************************************************************)
\* the index of the last row for which Key gives k, 0 when there is none
MaxOrZero(S) == IF S = {} THEN 0 ELSE CHOOSE i \in S : \A j \in S : j <= i
LastRow(rs, Key(_), k) == MaxOrZero({i \in DOMAIN rs : Key(rs[i]) = k})
DoiKey(row) == ToLower(Strip(row.doi))
TitleKey(row) == ToLower(NormalizeTitle(row.title))

\* set_field, lines 1294-1300
set_field(row, field, value, force) ==
    IF value = "" THEN row
    ELSE IF force \/ Strip(row[field]) = "" THEN [row EXCEPT ![field] = value]
    ELSE row

\* lines 1283-1307: the rows after one entry; rs0 are the rows as loaded, which
\* the two indexes were built from
ImportInto(rs, i, entry, title, force) ==
    IF i = 0 THEN rs
    ELSE [rs EXCEPT ![i] =
            set_field(set_field(set_field(set_field(set_field(rs[i],
                "title", title, force),
                "year", entry.year, force),
                "doi", entry.doi, force),
                "author", entry.author, force),
                "journal", entry.journal, force)]
\* lines 1286-1292: the row with the entry's DOI, else the row with its title
ImportTarget(byDoi, byTitle) == IF byDoi /= 0 THEN byDoi ELSE byTitle
ImportKeyed(rs, rs0, entry, title, doi, force) ==
    ImportInto(rs,
               ImportTarget(IF doi /= "" THEN LastRow(rs0, DoiKey, doi) ELSE 0,
                            IF title /= "" THEN LastRow(rs0, TitleKey, ToLower(title)) ELSE 0),
               entry, title, force)
ImportEntry(rs, rs0, entry, force) ==
    ImportKeyed(rs, rs0, entry, NormalizeTitle(entry.title), ToLower(Strip(entry.doi)), force)

RECURSIVE ImportLoop(_, _, _, _, _)
ImportLoop(rs, rs0, entries, k, force) ==
    IF k > Len(entries) THEN rs
    ELSE ImportLoop(ImportEntry(rs, rs0, entries[k], force), rs0, entries, k + 1, force)

\* import_bibtex(path, force); the store is rewritten when a row changed
ImportBibtex(entries, force) ==
    /\ pc = "idle"
    /\ cmds' = cmds + 1
    /\ store' = ImportLoop(store, store, entries, 1, force)
    /\ op' = [NoOp EXCEPT !.cmd = "import", !.force = force]
    /\ hist' = NoHist
    /\ UNCHANGED <<fs, today, edits, interrupts, pc, dry_run, tools, existing, paths, rows, allocs, abstracts, call>>

(***************************************************************************)
(* The environment: the user and the clock                                 *)
(***************************************************************************)
\* the user copies document d into PDFs/ under its name
AddPdf(d) ==
    /\ pc = "idle"
    /\ Cardinality(Files(fs)) < MaxPdfs
    /\ Library[d].name \notin Files(fs)
    /\ \A m \in Files(fs) : fs[m] /= d
    /\ fs' = [m \in Files(fs) \cup {Library[d].name} |-> IF m = Library[d].name THEN d ELSE fs[m]]
    /\ op' = NoOp
    /\ hist' = NoHist
    /\ UNCHANGED <<store, today, edits, cmds, interrupts, pc, dry_run, tools, existing, paths, rows, allocs, abstracts, call>>

\* the user deletes a PDF
RemovePdf(n) ==
    /\ pc = "idle"
    /\ n \in Files(fs)
    /\ fs' = [m \in Files(fs) \ {n} |-> fs[m]]
    /\ op' = NoOp
    /\ hist' = NoHist
    /\ UNCHANGED <<store, today, edits, cmds, interrupts, pc, dry_run, tools, existing, paths, rows, allocs, abstracts, call>>

\* the user edits one field of one row of metadata.csv by hand
UserEdit(i, e) ==
    /\ pc = "idle"
    /\ edits < MaxEdits
    /\ i \in DOMAIN store
    /\ store[i][e.field] /= e.value
    /\ edits' = edits + 1
    /\ store' = [store EXCEPT ![i][e.field] = e.value]
    /\ op' = NoOp
    /\ hist' = NoHist
    /\ UNCHANGED <<fs, today, cmds, interrupts, pc, dry_run, tools, existing, paths, rows, allocs, abstracts, call>>

\* midnight (UTC) passes
Tick ==
    /\ pc = "idle"
    /\ today < MaxDay
    /\ today' = today + 1
    /\ UNCHANGED <<fs, store, edits, cmds, interrupts, pc, dry_run, tools, existing, paths, rows, allocs, op, hist, abstracts, call>>

\* the scan command, its loop and its interruption
Scan ==
    \/ \E dry \in BOOLEAN, ok \in BOOLEAN : cmds < MaxCmds /\ ScanStart(dry, ok)
    \/ ScanStep
    \/ ScanFinish
    \/ ScanInterrupt

\* the commands that rewrite the store in one step
Commands ==
    \/ \E c \in CleanupRuns : \E ok \in (IF c.from_pdfs THEN BOOLEAN ELSE {TRUE}) :
          cmds < MaxCmds /\ Cleanup(c, ok)
    \/ \E force \in BOOLEAN, ok \in BOOLEAN : cmds < MaxCmds /\ Tag(force, ok)
    \/ \E entries \in BibFiles, force \in BOOLEAN : cmds < MaxCmds /\ ImportBibtex(entries, force)

\* what the user and the clock do between the commands
Environment ==
    \/ \E d \in DocIds : cmds < MaxCmds /\ AddPdf(d)
    \/ \E n \in Files(fs) : cmds < MaxCmds /\ RemovePdf(n)
    \/ \E i \in DOMAIN store, e \in UserEdits : cmds < MaxCmds /\ UserEdit(i, e)
    \/ cmds < MaxCmds /\ Tick

\* MaxCmds completed commands, MaxInterrupts interrupted scans
Next == Scan \/ Commands \/ Environment
Spec == Init /\ [][Next]_vars

(***************************************************************************)
(* Abstract extractor: clean_abstract_text, is_low_quality_abstract,       *)
(* extract_first_text_block                                                *)
(***************************************************************************)
collapse_whitespace(text) == Strip(SubSpaces(text))

AbstractClauseWords == {"copyright", "all rights reserved"}
\* \b(?:copyright|all rights reserved)\b matches at position i of the lower-cased text
ClauseAt(lower, i) == \E w \in AbstractClauseWords :
    Boundary(lower, i) /\ MatchAt(lower, i, w) /\ Boundary(lower, i + Len(w))
\* the match at i runs on over [^.]* and one "." if there is one: the position after it
ClauseEnd(s, i) == IF \E k \in i..Len(s) : Ch(s, k) = "."
                   THEN 1 + MinOrZero({k \in i..Len(s) : Ch(s, k) = "."})
                   ELSE Len(s) + 1
\* re.sub(r"\b(?:copyright|all rights reserved)\b[^.]*\.?", "", s, flags=re.IGNORECASE)
RECURSIVE SubClauses(_)
SubClausesFrom(s, i) ==
    IF i = 0 THEN s ELSE SubSeq(s, 1, i - 1) \o SubClauses(SubSeq(s, ClauseEnd(s, i), Len(s)))
SubClausesLower(s, lower) == SubClausesFrom(s, FirstPos(s, LAMBDA k : ClauseAt(lower, k)))
SubClauses(s) == SubClausesLower(s, ToLower(s))

\* clean_abstract_text once the white space is collapsed; the modelled texts hold
\* no character reference, which html.unescape leaves alone
CleanCollapsed(candidate) ==
    IF candidate = "" THEN ""
    ELSE StripChars(SubSpaces(SubClauses(candidate)), {" ", ":", ";", "-"})
clean_abstract_text(text) == CleanCollapsed(collapse_whitespace(text))

AbstractNoiseWords ==
    {"copyright", "all rights reserved", "creative commons", "received", "accepted", "issn", "doi:"}
\* ABSTRACT_NOISE_RE.search(s) for a lower-cased s
ABSTRACT_NOISE_RE(s) == \E w \in AbstractNoiseWords : WordSearch(s, w)

AbstractSectionWords ==
    {"keyword", "keywords", "index term", "index terms", "key point", "key points",
     "introduction", "reference", "references"}
\* ABSTRACT_SECTION_RE.match(s) for a lower-cased s; 1[.)]\s and i[.)]\s are
\* followed by \b, that is by a word character
ABSTRACT_SECTION_RE(s) ==
    \/ \E w \in AbstractSectionWords : WordPrefix(s, w)
    \/ /\ Ch(s, 1) \in {"1", "i"}
       /\ Ch(s, 2) \in {".", ")"}
       /\ Ch(s, 3) \in SpaceChars
       /\ IsWordAt(s, 4)

AbstractMinLen == 80
AbstractMaxChars == 4000
AbstractMaxBlocks == 40
HeaderMaxWords == 8
\* lower.startswith(("volume ", "issn ", "doi:", "journal "))
BoilerplateStarts == {"volume ", "issn ", "doi:", "journal "}
BoilerplateStart(lower) == \E p \in BoilerplateStarts : StartsWith(lower, p)

LowQualityCleaned(candidate, lower) ==
    \/ Len(candidate) < AbstractMinLen
    \/ ABSTRACT_NOISE_RE(lower)
    \/ BoilerplateStart(lower)
LowQualityCandidate(candidate) == LowQualityCleaned(candidate, ToLower(candidate))
is_low_quality_abstract(text) == LowQualityCandidate(clean_abstract_text(text))

\* the lines of extract_first_text_block
AbstractLines(raw) == [i \in DOMAIN raw |-> collapse_whitespace(Strip(raw[i]))]
\* re.sub(r"^abstract\b[:\s-]*", "", line) for a line that starts with the label
InlineAfterLabel(line) == LStrip(DropTo(line, 8), SpaceChars \cup {":", "-"})

\* the loop over the lines after the label: the block lines it ends with
RECURSIVE AbstractLoop(_, _)
\* a loop step that does not stop at a body-section line
NoSectionStop(rest, block_lines, stripped, lower) ==
    IF stripped = ""
    THEN IF block_lines /= <<>> THEN block_lines ELSE AbstractLoop(Tail(rest), block_lines)
    ELSE IF ABSTRACT_NOISE_RE(lower) THEN AbstractLoop(Tail(rest), block_lines)
    ELSE IF block_lines /= <<>> /\ IsUpper(stripped) /\ WordCount(stripped) <= HeaderMaxWords
         THEN block_lines
    ELSE AbstractLoop(Tail(rest), Append(block_lines, stripped))

AbstractStep(rest, block_lines, stripped, lower) ==
    IF stripped = ""
    THEN IF block_lines /= <<>> THEN block_lines ELSE AbstractLoop(Tail(rest), block_lines)
    ELSE IF ABSTRACT_SECTION_RE(lower) THEN block_lines
    ELSE IF ABSTRACT_NOISE_RE(lower) THEN AbstractLoop(Tail(rest), block_lines)
    ELSE IF block_lines /= <<>> /\ IsUpper(stripped) /\ WordCount(stripped) <= HeaderMaxWords
         THEN block_lines
    ELSE IF Len(JoinSpace(Append(block_lines, stripped))) > AbstractMaxChars
         THEN Append(block_lines, stripped)
    ELSE AbstractLoop(Tail(rest), Append(block_lines, stripped))
AbstractLoop(rest, block_lines) ==
    IF rest = <<>> THEN block_lines
    ELSE AbstractStep(rest, block_lines, Strip(rest[1]), ToLower(Strip(rest[1])))

\* the candidate of the label on line idx
LabelledStart(inline) == IF Strip(inline) /= "" THEN <<inline>> ELSE <<>>
LabelledAt(lines, idx) ==
    clean_abstract_text(JoinSpace(
        AbstractLoop(SubSeq(lines, idx + 1, Len(lines)), LabelledStart(InlineAfterLabel(lines[idx])))))
LabelledAccepted(candidate, lower) ==
    candidate /= "" /\ ~ABSTRACT_NOISE_RE(lower) /\ ~BoilerplateStart(lower)
\* the first accepted candidate of the labels on lines idx and after, "" when none
RECURSIVE LabelledFrom(_, _)
LabelledTry(lines, idx, candidate) ==
    IF LabelledAccepted(candidate, ToLower(candidate)) THEN candidate
    ELSE LabelledFrom(lines, idx + 1)
LabelledFrom(lines, idx) ==
    IF idx > Len(lines) THEN ""
    ELSE IF ~WordPrefix(ToLower(lines[idx]), "abstract") THEN LabelledFrom(lines, idx + 1)
    ELSE LabelledTry(lines, idx, LabelledAt(lines, idx))

\* the first block that passes the gate, cleaned, "" when none
RECURSIVE FallbackFrom(_)
\* a fallback that takes the first non-empty block
TakeAnyBlock(blocks, candidate) ==
    IF candidate = "" THEN FallbackFrom(Tail(blocks)) ELSE candidate

FallbackTry(blocks, candidate) ==
    IF is_low_quality_abstract(candidate) \/ Len(candidate) < AbstractMinLen
    THEN FallbackFrom(Tail(blocks))
    ELSE candidate
FallbackFrom(blocks) ==
    IF blocks = <<>> THEN "" ELSE FallbackTry(blocks, clean_abstract_text(JoinSpace(blocks[1])))

ExtractOr(text, labelled) ==
    IF labelled /= "" THEN labelled ELSE FallbackFrom(split_text_blocks(text, AbstractMaxBlocks))
\* extract_first_text_block; the modelled texts hold no carriage return
extract_first_text_block(text) ==
    IF Strip(text) = "" THEN ""
    ELSE ExtractOr(text, LabelledFrom(AbstractLines(SplitLines(text)), 1))

(***************************************************************************)
(* Abstract store: guess_abstract_for_row, load_abstracts, save_abstracts, *)
(* rebuild_abstracts                                                       *)
(***************************************************************************)
\* str.capitalize()
Capitalize(s) ==
    IF s = "" THEN ""
    ELSE (IF Ch(s, 1) \in LowerChars
          THEN Ch(UpperAlpha, CHOOSE i \in 1..26 : Ch(LowerAlpha, i) = Ch(s, 1))
          ELSE Ch(s, 1)) \o ToLower(DropTo(s, 1))
TemplateTypes == {"book", "thesis", "slides", "poster"}
\* lines 597-604, for the cleaned notes, the normalized title and the lowered type
GuessFallback(notes, title, doc_type) ==
    IF notes /= "" THEN notes
    ELSE IF title /= "" /\ doc_type \in TemplateTypes
         THEN Capitalize(doc_type) \o " focused on " \o title \o "."
    ELSE ""
GuessOr(row, candidate) ==
    IF candidate /= "" THEN candidate
    ELSE GuessFallback(clean_abstract_text(row.notes), normalize_title_text(row.title),
                       ToLower(Strip(row.type)))
\* guess_abstract_for_row, for the files f of the library directory
guess_abstract_for_row(row, from_pdfs, f, ok) ==
    GuessOr(row, IF from_pdfs /\ row_pdf_path(row) \in Files(f)
                 THEN extract_first_text_block(run_pdftotext_full(f[row_pdf_path(row)], ok))
                 ELSE "")

\* load_abstracts: the abstracts keyed by stripped code, a later row replacing an
\* earlier one, rows without a code left out
load_abstracts(file) ==
    [c \in {Strip(file[i].code) : i \in DOMAIN file} \ {""} |-> file[LastCoded(file, c)].abstract]
\* a save that writes the keys in descending order
SaveDescending(mapping) ==
    [i \in 1..Cardinality(DOMAIN mapping) |->
        [code |-> SortedStems(DOMAIN mapping)[Cardinality(DOMAIN mapping) + 1 - i],
         abstract |-> mapping[SortedStems(DOMAIN mapping)[Cardinality(DOMAIN mapping) + 1 - i]]]]
\* save_abstracts: one row per key in sorted order; the keys passed are stripped
\* and not empty
save_abstracts(mapping) ==
    [i \in 1..Cardinality(DOMAIN mapping) |->
        [code |-> SortedStems(DOMAIN mapping)[i], abstract |-> mapping[SortedStems(DOMAIN mapping)[i]]]]

\* a rebuild that regenerates every abstract
RegenerateAll(row, code, current, rebuilt, from_pdfs, force, f, ok) ==
    IF code = "" \/ code \in DOMAIN rebuilt THEN rebuilt
    ELSE rebuilt @@ (code :> guess_abstract_for_row(row, from_pdfs, f, ok))

\* rebuild_abstracts, lines 615-628: one iteration
RebuildRow(row, code, current, rebuilt, from_pdfs, force, f, ok) ==
    IF code = "" \/ code \in DOMAIN rebuilt THEN rebuilt
    ELSE IF current /= "" /\ ~force THEN rebuilt @@ (code :> current)
    ELSE rebuilt @@ (code :> guess_abstract_for_row(row, from_pdfs, f, ok))
\* existing.get(code, "")
CurrentOf(existing_abstracts, code) ==
    IF code \in DOMAIN existing_abstracts THEN existing_abstracts[code] ELSE ""
RECURSIVE RebuildLoop(_, _, _, _, _, _, _)
RebuildLoop(st, existing_abstracts, rebuilt, from_pdfs, force, f, ok) ==
    IF st = <<>> THEN rebuilt
    ELSE RebuildLoop(Tail(st), existing_abstracts,
                     RebuildRow(st[1], Strip(st[1].code),
                                CurrentOf(existing_abstracts, Strip(st[1].code)),
                                rebuilt, from_pdfs, force, f, ok),
                     from_pdfs, force, f, ok)
\* rebuild_abstracts: the rows written to abstracts.csv
rebuild_abstracts(st, file, from_pdfs, force, f, ok) ==
    save_abstracts(RebuildLoop(st, load_abstracts(file), Emp, from_pdfs, force, f, ok))

\* the command abstracts [--from-pdfs] [--force]
RebuildAbstracts(from_pdfs, force, ok) ==
    /\ cmds < MaxCmds
    /\ pc = "idle"
    /\ cmds' = cmds + 1
    /\ abstracts' = rebuild_abstracts(store, abstracts, from_pdfs, force, fs, ok)
    /\ op' = [NoOp EXCEPT !.cmd = "abstracts", !.force = force, !.ok = ok, !.from_pdfs = from_pdfs]
    /\ hist' = [mode |-> "abstracts", owned |-> load_abstracts(abstracts)]
    /\ UNCHANGED <<fs, store, today, edits, interrupts, pc, dry_run, tools, existing, paths, rows,
                   allocs, call>>

(***************************************************************************)
(* The CSV files: csv.DictWriter and csv.DictReader in the excel dialect   *)
(***************************************************************************)
\* ABSTRACT_FIELDS
ABSTRACT_FIELDS == <<"code", "abstract">>

\* csv.writer, QUOTE_MINIMAL: a field that holds the delimiter, the quote
\* character or a character of the line terminator is put in quotes, each quote
\* inside it doubled
CsvSpecialChars == {",", "\"", "\r", "\n"}
CsvQuoted(field) ==
    "\"" \o Cat([i \in 1..Len(field) |-> IF Ch(field, i) = "\"" THEN "\"\"" ELSE Ch(field, i)],
                1, Len(field)) \o "\""
CsvField(field) ==
    IF \E i \in 1..Len(field) : Ch(field, i) \in CsvSpecialChars THEN CsvQuoted(field) ELSE field
\* writer.writerow: the fields joined by commas and ended by \r\n
CsvRow(fields) ==
    Cat([i \in 1..Len(fields) |-> (IF i > 1 THEN "," ELSE "") \o CsvField(fields[i])],
        1, Len(fields)) \o "\r\n"
\* writeheader and one writerow per record
CsvText(records) == Cat([i \in 1..Len(records) |-> CsvRow(records[i])], 1, Len(records))

\* the length of the line break at position i of a file opened with newline="":
\* \r\n, \r or \n end a line; 0 when there is none
BreakAt(text, i) ==
    IF MatchAt(text, i, "\r\n") THEN 2
    ELSE IF Ch(text, i) \in {"\r", "\n"} THEN 1
    ELSE 0

\* csv.reader: the records of `text`, each a sequence of fields, read field by
\* field from position i. The quotes of text[lo..hi] before position j:
QuotesTo(text, lo, j) == Cardinality({k \in lo..j : Ch(text, k) = "\""})
\* IN_FIELD: an unquoted field, or the rest of a field after its closing quote,
\* ends before the next delimiter or line break
FieldEnd(text, i) ==
    IF i > Len(text) THEN Len(text) + 1
    ELSE MinOrZero({e \in i..(Len(text) + 1) : e > Len(text) \/ Ch(text, e) = "," \/ BreakAt(text, e) > 0})
\* IN_QUOTED_FIELD: the quote that closes the field opened at i, past the end
\* when there is none; a doubled quote stands for one quote and closes nothing
ClosingQuote(text, i) ==
    MinOrZero({q \in (i + 1)..(Len(text) + 1) :
                  \/ q > Len(text)
                  \/ /\ Ch(text, q) = "\""
                     /\ QuotesTo(text, i + 1, q) % 2 = 1
                     /\ Ch(text, q + 1) /= "\""})
Undoubled(text, lo, hi) ==
    Cat([k \in 1..(hi - lo + 1) |->
            IF Ch(text, lo + k - 1) = "\"" /\ QuotesTo(text, lo, lo + k - 1) % 2 = 0
            THEN "" ELSE Ch(text, lo + k - 1)], 1, hi - lo + 1)
RECURSIVE CsvParse(_, _, _, _)
\* the field text[i..e-1] read as `field`: the delimiter starts the next field,
\* a line break or the end of the file ends the record
CsvSaveField(text, e, field, record, records) ==
    IF Ch(text, e) = "," THEN CsvParse(text, e + 1, Append(record, field), records)
    ELSE IF e + BreakAt(text, e) > Len(text) THEN Append(records, Append(record, field))
    ELSE CsvParse(text, e + BreakAt(text, e), <<>>, Append(records, Append(record, field)))
CsvQuotedField(text, i, q) ==
    Undoubled(text, i + 1, q - 1) \o SubSeq(text, q + 1, FieldEnd(text, q + 1) - 1)
\* START_RECORD and START_FIELD at position i
CsvParse(text, i, record, records) ==
    IF i > Len(text) THEN (IF record = <<>> THEN records ELSE Append(records, Append(record, "")))
    ELSE IF record = <<>> /\ BreakAt(text, i) > 0
    THEN CsvParse(text, i + BreakAt(text, i), <<>>, Append(records, <<>>))
    ELSE IF Ch(text, i) = "\""
    THEN CsvSaveField(text, FieldEnd(text, ClosingQuote(text, i) + 1),
                      CsvQuotedField(text, i, ClosingQuote(text, i)), record, records)
    ELSE CsvSaveField(text, FieldEnd(text, i), SubSeq(text, i, FieldEnd(text, i) - 1), record, records)
CsvRead(text) == CsvParse(text, 1, <<>>, <<>>)

\* csv.DictReader: row.get(name) or "" under the header `fieldnames`: the value
\* in the last column of that name; nothing when there is no such column or the
\* row does not reach it (None, which the files written here never give)
DictColumn(record, k) == IF k >= 1 /\ k <= Len(record) THEN record[k] ELSE ""
DictGet(fieldnames, record, name) ==
    DictColumn(record, MaxOrZero({k \in 1..Len(fieldnames) : fieldnames[k] = name}))
\* the rows after the header, blank lines skipped
RECURSIVE DictRecords(_)
DictRecords(records) ==
    IF records = <<>> THEN <<>>
    ELSE (IF records[1] = <<>> THEN <<>> ELSE <<records[1]>>) \o DictRecords(Tail(records))
\* the rows of abstracts.csv as load_abstracts reads them
AbstractsOfRecords(fieldnames, records) ==
    [i \in 1..Len(records) |-> [code |-> DictGet(fieldnames, records[i], "code"),
                                abstract |-> DictGet(fieldnames, records[i], "abstract")]]
read_abstracts_file(text) ==
    IF CsvRead(text) = <<>> THEN <<>>
    ELSE AbstractsOfRecords(CsvRead(text)[1], DictRecords(Tail(CsvRead(text))))
\* the text save_abstracts writes for the rows it made
write_abstracts_file(file) ==
    CsvText(<<ABSTRACT_FIELDS>> \o [i \in 1..Len(file) |-> <<file[i].code, file[i].abstract>>])

(***************************************************************************)
(* The text functions called on their own: a call is drawn with its        *)
(* arguments, then made                                                    *)
(***************************************************************************)
\* the library, the store and the run state are not touched by a call
NoRun == UNCHANGED <<fs, store, today, edits, cmds, interrupts, pc, dry_run, tools, existing, paths,
                     rows, allocs, op, hist, abstracts>>

\* file names, creation dates and texts for infer_year: each source with and
\* without a year, and sources that disagree
YearFilenames ==
    {"foo.pdf", "1706.03762v5.pdf", "smith_2015_notes.pdf", "2103.00020_report_1999.pdf",
     "scan_120191.pdf"}
YearCreations == {"", "D:20190304101500", "Mon Nov 10 09:00:00 1997", "D:21050101"}
YearTexts ==
    {"", "Published 2021, revised 2022.", "See arXiv: 0704.0001 (2021)",
     "Order 12019 of 20223 items", "(c) 1999 and 2003, 1987."}
YearCalls ==
    [fn : {"infer_year"}, filename : YearFilenames, creation : YearCreations, text : YearTexts,
     done : {FALSE}, result : {""}]
CallInferYear ==
    /\ call.fn = "infer_year"
    /\ ~call.done
    /\ call' = [call EXCEPT !.done = TRUE,
                             !.result = infer_year(call.filename, call.creation, call.text)]
    /\ NoRun

\* file names, titles and pdfinfo Creator values for infer_type: no keyword,
\* one keyword, keywords of several groups
TypeFilenames ==
    {"foo.pdf", "arxiv_thesis_2020.pdf", "PhD_Slides.pdf", "poster-book.pdf", "1706.03762.pdf"}
TypeTitles == {"", "Deep Nets for Caching", "Presentation of the arXiv", "Handbook of Caching"}
TypeCreators == {"", "LaTeX with hyperref", "arXiv GenPDF", "Microsoft PowerPoint Presentation"}
TypeCalls ==
    [fn : {"infer_type"}, filename : TypeFilenames, title : TypeTitles, creator : TypeCreators,
     done : {FALSE}, result : {""}]
CallInferType ==
    /\ call.fn = "infer_type"
    /\ ~call.done
    /\ call' = [call EXCEPT !.done = TRUE,
                             !.result = infer_type(call.filename, call.creator, call.title)]
    /\ NoRun

\* embedded titles, first pages and file names for extract_title: a source
\* absent, good, flagged, or empty once normalized
TitleInfos == {"", "Deep Nets for Caching", "untitled", " - "}
TitleTexts ==
    {"", "A Survey of Efficient Caching Strategies\nAnn Lee\n\nAbstract\nWe survey.",
     "Efficient caching_strategies for large systems", "Volume 12, Issue 3"}
TitleFilenames == {"my_file_name.pdf", "_.pdf", "smith-2015.pdf"}
TitleCalls ==
    [fn : {"extract_title"}, title : TitleInfos, text : TitleTexts, filename : TitleFilenames,
     done : {FALSE}, result : {""}]
CallExtractTitle ==
    /\ call.fn = "extract_title"
    /\ ~call.done
    /\ call' = [call EXCEPT !.done = TRUE,
                             !.result = extract_title(call.title, call.text, call.filename)]
    /\ NoRun

\* title candidates for the scorer and the refresh gate: with and without a
\* noise word, with the largest rewards, ending in a file extension
ScoreTexts ==
    {"Volume 12, Issue 3, ISSN 1234-5678",
     "A Survey of Efficient Caching Strategies for Distributed Systems",
     "Number Theory and Its Applications Today",
     "a vol of things we like very much indeed yes",
     "Volumetric Rendering of Large Data Sets",
     "report.pdf", "Final Report on Caching Strategies v2.doc", "report\\.pdf",
     "untitled", "PII S0370-2693(99)00123-4"}
ScoreCalls ==
    [fn : {"score_title_candidate", "needs_title_refresh"}, text : ScoreTexts,
     done : {FALSE}, result : {""}]
CallScoreTitle ==
    /\ call.fn = "score_title_candidate"
    /\ ~call.done
    /\ call' = [call EXCEPT !.done = TRUE, !.result = score_title_candidate(call.text)]
    /\ NoRun
CallNeedsRefresh ==
    /\ call.fn = "needs_title_refresh"
    /\ ~call.done
    /\ call' = [call EXCEPT !.done = TRUE, !.result = needs_title_refresh(call.text)]
    /\ NoRun

\* titles for normalize_title_text, applied once and then to its own result
NormTexts ==
    {"", "  Deep   Nets for Caching ", "Multi- scale Tele- scope Design", "a- b- c",
     "?HE\tend", "?HE end", "- A Survey -"}
NormCalls ==
    [fn : {"normalize_title_text"}, text : NormTexts, done : {FALSE}, result : {""},
     again : {FALSE}, second : {""}]
CallNormalize ==
    /\ call.fn = "normalize_title_text"
    /\ ~call.done
    /\ call' = [call EXCEPT !.done = TRUE, !.result = normalize_title_text(call.text)]
    /\ NoRun
CallNormalizeAgain ==
    /\ call.fn = "normalize_title_text"
    /\ call.done
    /\ ~call.again
    /\ call' = [call EXCEPT !.again = TRUE, !.second = normalize_title_text(call.result)]
    /\ NoRun

\* full texts for extract_first_text_block: a labelled section that is accepted,
\* one that yields nothing or is rejected, no label, blocks that pass or fail the gate
AbstractTexts ==
    {"",
     "Title\n\nABSTRACT\nSentence one. Sentence two.\n\nKeywords: x, y\n\nIntroduction\nBody text.",
     "Abstract: We study caching.\nIt works well.\nRELATED WORK\nOthers did things.",
     "Title\n\nAbstract\nKeywords: caching, networks\n\nIntroduction\nThis is the body of the paper and it is long enough to pass the gate of eighty characters.",
     "A Survey of Caching\nAnn Lee\n\nCaching is a broad field with many strategies, and this block of text is long enough to pass.\n\nReferences",
     "Abstract\nReceived 3 May 2019\nWe study caching in depth.\nISSN 1234\nIt is fast.\n1. Introduction\nBody",
     "Abstract: accepted for publication\n\nShort body.",
     "Results all rights copyright 2019 Elsevier. reserved for later. The method is evaluated on ten large data sets and it performs well in all of them, as shown.",
     "Abstract: doi:10.1/x\n\nAbstract\nWe study caching. It is fast.",
     "Abstract: We study caching. Copyright 2019 Lee.\nIt is fast.\n\nBody",
     "Volume 12 of the Journal of Caching holds this paper, which is long enough to pass the length gate of the extractor.\n\nShort block."}
AbstractCalls ==
    [fn : {"extract_first_text_block"}, text : AbstractTexts, done : {FALSE}, result : {""}]
CallExtractAbstract ==
    /\ call.fn = "extract_first_text_block"
    /\ ~call.done
    /\ call' = [call EXCEPT !.done = TRUE, !.result = extract_first_text_block(call.text)]
    /\ NoRun

\* rows, library directories and tool outcomes for guess_abstract_for_row: notes
\* that are empty, kept, or empty once cleaned; every type; with and without a file
GuessNotes == {"", "  Read  again. ", "Copyright 2019 Lee."}
GuessTitles == {"", "Deep Nets for Caching"}
GuessTypes == {"article", "thesis", "slides", "poster", "preprint", "book", " Thesis"}
GuessRows == [code : {"lee"}, notes : GuessNotes, title : GuessTitles, type : GuessTypes]
GuessDirs == {Emp, "lee" :> 2}
GuessCalls ==
    [fn : {"guess_abstract_for_row"}, row : GuessRows, from_pdfs : BOOLEAN, files : GuessDirs,
     ok : BOOLEAN, done : {FALSE}, result : {""}]
CallGuessAbstract ==
    /\ call.fn = "guess_abstract_for_row"
    /\ ~call.done
    /\ call' = [call EXCEPT !.done = TRUE,
                             !.result = guess_abstract_for_row(call.row, call.from_pdfs,
                                                               call.files, call.ok)]
    /\ NoRun

InitText ==
    /\ Constructed
    /\ abstracts = <<>>
    /\ \/ call \in YearCalls
       \/ call \in TypeCalls
       \/ call \in TitleCalls
       \/ call \in ScoreCalls
       \/ call \in NormCalls
       \/ call \in AbstractCalls
       \/ call \in GuessCalls
NextText ==
    \/ CallInferYear
    \/ CallInferType
    \/ CallExtractTitle
    \/ CallScoreTitle
    \/ CallNeedsRefresh
    \/ CallNormalize
    \/ CallNormalizeAgain
    \/ CallExtractAbstract
    \/ CallGuessAbstract
SpecText == InitText /\ [][NextText]_vars

(***************************************************************************)
(* The abstracts command on a library that is already there: a metadata    *)
(* store, a library directory and an abstracts file are drawn, then the    *)
(* command runs                                                            *)
(***************************************************************************)
MaxRows == 2
\* a row of metadata.csv as a scan or a user's editor leaves it
AbstractRow(code, type, notes) ==
    [code |-> code, type |-> type, title |-> "Alpha title", journal |-> "", year |-> "2025",
     doi |-> "", author |-> "", keywords |-> "", my_keywords |-> "", star |-> "", unread |-> "",
     added_at |-> "2026-11-01", notes |-> notes]
AbstractRows ==
    {AbstractRow("alpha", "article", ""), AbstractRow("beta", "thesis", "Beta abstract from notes."),
     AbstractRow(" alpha ", "book", "Second row of the code."),
     AbstractRow("", "article", "A row without a code.")}
AbstractStores == UNION {[1..n -> AbstractRows] : n \in 0..MaxRows}
\* the library directory: the file of code alpha is there or not
AbstractDirs == {Emp, "alpha" :> 2}
\* abstracts.csv as save_abstracts wrote it: entries of codes of the store and of
\* a code no longer in it, empty or not
AbstractValues == {"", "Existing alpha abstract."}
AbstractMappings == UNION {[S -> AbstractValues] : S \in SUBSET {"alpha", "beta", "orphan"}}
InitAbstracts ==
    /\ store \in AbstractStores
    /\ fs \in AbstractDirs
    /\ abstracts \in {save_abstracts(m) : m \in AbstractMappings}
    /\ today = 1
    /\ edits = 0
    /\ cmds = 0
    /\ interrupts = 0
    /\ pc = "idle"
    /\ dry_run = FALSE
    /\ tools = TRUE
    /\ existing = Emp
    /\ paths = <<>>
    /\ rows = <<>>
    /\ allocs = <<>>
    /\ op = NoOp
    /\ hist = NoHist
    /\ call = NoCall
NextAbstracts == \E from_pdfs \in BOOLEAN, force \in BOOLEAN, ok \in BOOLEAN :
    RebuildAbstracts(from_pdfs, force, ok)
SpecAbstracts == InitAbstracts /\ [][NextAbstracts]_vars

(***************************************************************************)
(* Listing: parse_ymd_date, sort_rows_by_added, filter_rows                *)
(***************************************************************************)
\* an optional number or date: None is the empty sequence, the value n is <<n>>
None == <<>>

\* ADDED_AT_RE: ^\d{4}-\d{2}-\d{2}$
ADDED_AT_RE(s) ==
    /\ Len(s) = 10
    /\ \A i \in {1, 2, 3, 4, 6, 7, 9, 10} : Ch(s, i) \in DigitChars
    /\ Ch(s, 5) = "-"
    /\ Ch(s, 8) = "-"
\* the two digits at position i as a number
Num2(s, i) == 10 * DigitVal(Ch(s, i)) + DigitVal(Ch(s, i + 1))
\* the days of month m of year y in the proleptic Gregorian calendar
IsLeap(y) == y % 4 = 0 /\ (y % 100 /= 0 \/ y % 400 = 0)
DaysIn(y, m) ==
    IF m = 2 THEN (IF IsLeap(y) THEN 29 ELSE 28)
    ELSE IF m \in {4, 6, 9, 11} THEN 30
    ELSE 31
\* date(y, m, d) as the number <<yyyymmdd>>, which orders dates as date objects are
\* ordered; ValueError (None) for a date that does not exist
DateOf(y, m, d) ==
    IF y >= 1 /\ m >= 1 /\ m <= 12 /\ d >= 1 /\ d <= DaysIn(y, m)
    THEN <<10000 * y + 100 * m + d>>
    ELSE None
\* date.fromisoformat on a string that matches ADDED_AT_RE
FromIsoFormat(s) == DateOf(Year4Val(s), Num2(s, 6), Num2(s, 9))
ParseStripped(value) ==
    IF value = "" \/ ~ADDED_AT_RE(value) THEN None ELSE FromIsoFormat(value)
parse_ymd_date(value) == ParseStripped(Strip(value))

\* the rows with and without a date, in their order
HasAdded(row) == parse_ymd_date(row.added_at) /= None
NoAdded(row) == parse_ymd_date(row.added_at) = None
\* list.sort(key=..., reverse=descending) is stable in both directions: a row
\* goes behind every row placed before it that does not sort after it
InsertAt(seq, k, x) == SubSeq(seq, 1, k) \o <<x>> \o SubSeq(seq, k + 1, Len(seq))
PlaceByAdded(sorted, row, key, descending) ==
    InsertAt(sorted,
             Cardinality({k \in DOMAIN sorted :
                             IF descending THEN parse_ymd_date(sorted[k].added_at)[1] >= key[1]
                             ELSE parse_ymd_date(sorted[k].added_at)[1] <= key[1]}),
             row)
RECURSIVE SortDated(_, _, _)
SortDated(dated, sorted, descending) ==
    IF dated = <<>> THEN sorted
    ELSE SortDated(Tail(dated),
                   PlaceByAdded(sorted, dated[1], parse_ymd_date(dated[1].added_at), descending),
                   descending)
\* a sort of all the rows that puts the rows without a date first when reversed
MissingFirstReversed(rs, descending) ==
    IF descending
    THEN SelectSeq(rs, NoAdded) \o SortDated(SelectSeq(rs, HasAdded), <<>>, descending)
    ELSE SortDated(SelectSeq(rs, HasAdded), <<>>, descending) \o SelectSeq(rs, NoAdded)
\* sort_rows_by_added, lines 715-726
sort_rows_by_added(rs, descending) ==
    SortDated(SelectSeq(rs, HasAdded), <<>>, descending) \o SelectSeq(rs, NoAdded)

\* int(text): surrounding whitespace, a sign, decimal digits with single
\* underscores between them; ValueError (None) for anything else
IntBody(s) == IF Ch(s, 1) \in {"+", "-"} THEN Tail(s) ELSE s
IntDigits(body) ==
    /\ body /= ""
    /\ \A i \in 1..Len(body) : Ch(body, i) \in DigitChars \cup {"_"}
    /\ Ch(body, 1) /= "_"
    /\ Ch(body, Len(body)) /= "_"
    /\ ~Contains(body, "__")
RECURSIVE DecVal(_)
DecVal(body) ==
    IF body = "" THEN 0
    ELSE IF Ch(body, Len(body)) = "_" THEN DecVal(SubSeq(body, 1, Len(body) - 1))
    ELSE 10 * DecVal(SubSeq(body, 1, Len(body) - 1)) + DigitVal(Ch(body, Len(body)))
IntSigned(s) ==
    IF ~IntDigits(IntBody(s)) THEN None
    ELSE IF Ch(s, 1) = "-" THEN <<0 - DecVal(IntBody(s))>>
    ELSE <<DecVal(IntBody(s))>>
IntOf(text) == IntSigned(Strip(text))

\* `if x:` for an optional number (None and 0 are false), an optional date (None
\* is false) and an optional string (None, modelled as "", and "" are false)
Truthy(x) == x /= None /\ x /= <<0>>
TruthyText(x) == x /= ""

\* match_year, lines 740-748
YearInRange(year, year_from, year_to) ==
    /\ year /= None
    /\ ~(year_from /= None /\ year[1] < year_from[1])
    /\ ~(year_to /= None /\ year[1] > year_to[1])
match_year(row, year_from, year_to) == YearInRange(IntOf(row.year), year_from, year_to)
\* match_text, lines 750-753
match_text(field, needle) == ~TruthyText(needle) \/ Contains(ToLower(field), ToLower(needle))
\* match_added, lines 755-763
AddedInRange(added_at, added_from, added_to) ==
    /\ added_at /= None
    /\ ~(added_from /= None /\ added_at[1] < added_from[1])
    /\ ~(added_to /= None /\ added_at[1] > added_to[1])
match_added(row, added_from, added_to) ==
    AddedInRange(parse_ymd_date(row.added_at), added_from, added_to)

\* a filter that takes every non-empty unread flag for set
KeepsAnyFlag(row, c) ==
    /\ (Truthy(c.year_from) \/ Truthy(c.year_to)) => match_year(row, c.year_from, c.year_to)
    /\ TruthyText(c.journal) => match_text(row.journal, c.journal)
    /\ TruthyText(c.keyword) => match_text(row.keywords, c.keyword)
    /\ TruthyText(c.my_keyword) => match_text(row.my_keywords, c.my_keyword)
    /\ (Truthy(c.added_from) \/ Truthy(c.added_to)) => match_added(row, c.added_from, c.added_to)
    /\ c.unread_only => Strip(row.unread) /= ""
\* lines 766-782: the row is appended unless a check says continue
FilterKeeps(row, c) ==
    /\ (Truthy(c.year_from) \/ Truthy(c.year_to)) => match_year(row, c.year_from, c.year_to)
    /\ TruthyText(c.journal) => match_text(row.journal, c.journal)
    /\ TruthyText(c.keyword) => match_text(row.keywords, c.keyword)
    /\ TruthyText(c.my_keyword) => match_text(row.my_keywords, c.my_keyword)
    /\ (Truthy(c.added_from) \/ Truthy(c.added_to)) => match_added(row, c.added_from, c.added_to)
    /\ c.unread_only => Strip(row.unread) = "1"
\* filter_rows(rows, **c)
RECURSIVE filter_rows(_, _)
filter_rows(rs, c) ==
    IF rs = <<>> THEN <<>>
    ELSE (IF FilterKeeps(rs[1], c) THEN <<rs[1]>> ELSE <<>>) \o filter_rows(Tail(rs), c)

(***************************************************************************)
(* The abstracts file and the listing functions called on their own: a     *)
(* call is drawn with its arguments, then made                             *)
(***************************************************************************)
\* dict(items): the mapping a sequence of items builds, a later item replacing
\* an earlier one of the same code
DictOf(items) ==
    [c \in {items[i].code : i \in DOMAIN items} |-> items[LastCoded(items, c)].abstract]

\* codes (stripped, not empty) and abstracts for save_abstracts: plain ones, and
\* ones with the delimiter, quotes, line breaks and outer spaces
SaveCodes == {"a_code", "b_code", "B,1", "\"q\""}
SaveValues == {"", "First abstract", "Second, \"quoted\"", "two\r\nlines", " x "}
SaveItems == {[code |-> c, abstract |-> a] : c \in SaveCodes, a \in SaveValues}
SaveCalls ==
    {[fn |-> "save_abstracts", items |-> items, saved |-> FALSE, text |-> "", done |-> FALSE,
      result |-> Emp] :
        items \in {<<>>} \cup {<<x>> : x \in SaveItems}
                  \cup {p \in SaveItems \X SaveItems : p[1].code /= p[2].code}}

\* rows of metadata.csv for the listing functions: dates in and out of a range, a
\* date that does not exist, a date and a flag with blanks around them, no date,
\* two rows of the same date
MaxListed == 3
ListRow(code, year, journal, added_at, unread) ==
    [code |-> code, type |-> "article", title |-> "Alpha title", journal |-> journal, year |-> year,
     doi |-> "", author |-> "", keywords |-> "caching, nets", my_keywords |-> "", star |-> "",
     unread |-> unread, added_at |-> added_at, notes |-> ""]
ListRows ==
    {ListRow("a", "2019", "J. Caching", "2026-01-10", ""),
     ListRow("b", "2021", "", "2026-01-12", "1"),
     ListRow("c", "in press", "Cache Letters", "2026-01-15", "0"),
     ListRow("d", "2019", "", "", " 1 "),
     ListRow("e", " 2_021 ", "", "2026-02-30", "1"),
     ListRow("f", "", "", " 2026-01-12 ", ""),
     ListRow("g", "2021", "", "2026-01-12", "")}
ListInputs == UNION {[1..n -> ListRows] : n \in 0..MaxListed}
\* the arguments of filter_rows: none given, each one alone, and some together
NoCriteria ==
    [year_from |-> None, year_to |-> None, journal |-> "", keyword |-> "", my_keyword |-> "",
     added_from |-> None, added_to |-> None, unread_only |-> FALSE]
FilterCriteria ==
    {NoCriteria,
     [NoCriteria EXCEPT !.year_from = <<2020>>],
     [NoCriteria EXCEPT !.year_from = <<0>>],
     [NoCriteria EXCEPT !.year_from = <<2019>>, !.year_to = <<2020>>],
     [NoCriteria EXCEPT !.journal = "caching"],
     [NoCriteria EXCEPT !.keyword = "NETS"],
     [NoCriteria EXCEPT !.my_keyword = "x"],
     [NoCriteria EXCEPT !.added_from = DateOf(2026, 1, 11)],
     [NoCriteria EXCEPT !.added_to = DateOf(2026, 1, 13)],
     [NoCriteria EXCEPT !.added_from = DateOf(2026, 1, 11), !.added_to = DateOf(2026, 1, 13)],
     [NoCriteria EXCEPT !.unread_only = TRUE],
     [NoCriteria EXCEPT !.added_from = DateOf(2026, 1, 12), !.unread_only = TRUE],
     [NoCriteria EXCEPT !.journal = "caching", !.added_to = DateOf(2026, 1, 12)]}
FilterCalls ==
    {[fn |-> "filter_rows", rows |-> rs, c |-> c, done |-> FALSE, result |-> <<>>] :
        rs \in ListInputs, c \in FilterCriteria}
SortCalls ==
    {[fn |-> "sort_rows_by_added", rows |-> rs, descending |-> descending, done |-> FALSE,
      result |-> <<>>] : rs \in ListInputs, descending \in BOOLEAN}

CallFilterRows ==
    /\ call.fn = "filter_rows"
    /\ ~call.done
    /\ call' = [call EXCEPT !.done = TRUE, !.result = filter_rows(call.rows, call.c)]
    /\ NoRun
CallSortRows ==
    /\ call.fn = "sort_rows_by_added"
    /\ ~call.done
    /\ call' = [call EXCEPT !.done = TRUE,
                             !.result = sort_rows_by_added(call.rows, call.descending)]
    /\ NoRun

\* save_abstracts(mapping) writes abstracts.csv
CallSaveAbstracts ==
    /\ call.fn = "save_abstracts"
    /\ ~call.saved
    /\ call' = [call EXCEPT !.saved = TRUE,
                             !.text = write_abstracts_file(save_abstracts(DictOf(call.items)))]
    /\ NoRun
\* load_abstracts() reads it back
CallLoadAbstracts ==
    /\ call.fn = "save_abstracts"
    /\ call.saved
    /\ ~call.done
    /\ call' = [call EXCEPT !.done = TRUE, !.result = load_abstracts(read_abstracts_file(call.text))]
    /\ NoRun

InitFiles ==
    /\ Constructed
    /\ abstracts = <<>>
    /\ \/ call \in SaveCalls
       \/ call \in FilterCalls
       \/ call \in SortCalls
NextFiles ==
    \/ CallSaveAbstracts
    \/ CallLoadAbstracts
    \/ CallFilterRows
    \/ CallSortRows
SpecFiles == InitFiles /\ [][NextFiles]_vars

(***************************************************************************)
(* verify_integrity on a library that is already there: metadata.csv, the  *)
(* library directory and abstracts.csv are drawn, then the command runs    *)
(***************************************************************************)
\* A CSV file as the readers see it: whether it exists, its first record, and the
\* records after it
NoFile == [exists |-> FALSE, header |-> <<>>, records |-> <<>>]
\* read_csv_header(path): the first record, [] when there is no file or no record
read_csv_header(file) == IF file.exists THEN file.header ELSE <<>>
\* load_rows / csv.DictReader: the records after the header
load_rows(file) == IF file.exists THEN file.records ELSE <<>>
\* row.get(name) of a DictReader row
RowGet(file, i, name) == DictGet(file.header, load_rows(file)[i], name)
\* code_to_rel_pdf_path(code)
code_to_rel_pdf_path(code) ==
    IF Strip(code) = "" THEN "" ELSE "PDFs/" \o Strip(code) \o ".pdf"
\* str(path.relative_to(top)) of the files LIB_DIR.glob("*.pdf") finds
RelPdfs(files) == {"PDFs/" \o n \o ".pdf" : n \in files}
\* meta_files: the paths of the rows whose code is not empty
MetaFiles(file) ==
    {code_to_rel_pdf_path(RowGet(file, i, "code")) :
        i \in {j \in DOMAIN load_rows(file) : RowGet(file, j, "code") /= ""}}
missing_in_meta(file, files) == RelPdfs(files) \ MetaFiles(file)
missing_pdfs(file, files) ==
    {f \in MetaFiles(file) : EndsWith(f, ".pdf") /\ f \notin RelPdfs(files)}
\* the stripped codes that are not empty, one per row that has one
StrippedCodes(file) ==
    [i \in {j \in DOMAIN load_rows(file) : Strip(RowGet(file, j, "code")) /= ""} |->
        Strip(RowGet(file, i, "code"))]
duplicate_codes(file) ==
    {c \in Range(StrippedCodes(file)) :
        Cardinality({i \in DOMAIN StrippedCodes(file) : StrippedCodes(file)[i] = c}) > 1}
find_bad_titles(file) ==
    {i \in DOMAIN load_rows(file) : needs_title_refresh(Strip(RowGet(file, i, "title")))}
unknown_codes(afile, mfile) == Range(StrippedCodes(afile)) \ Range(StrippedCodes(mfile))

Issue(found) == IF found THEN 1 ELSE 0
AbstractIssues(afile, mfile) ==
    IF ~afile.exists
    THEN 1
    ELSE Issue(read_csv_header(afile) /= ABSTRACT_FIELDS)
         + Issue(unknown_codes(afile, mfile) /= {})
verify_integrity(mfile, files, afile) ==
    Issue(~mfile.exists)
    + Issue(read_csv_header(mfile) /= <<>> /\ read_csv_header(mfile) /= FIELDS)
    + Issue(missing_in_meta(mfile, files) /= {})
    + Issue(missing_pdfs(mfile, files) /= {})
    + Issue(find_bad_titles(mfile) /= {})
    + Issue(duplicate_codes(mfile) /= {})
    + AbstractIssues(afile, mfile)

\* The files on disk behind the store and the abstracts: written by save_metadata
\* and save_abstracts ("written"), with the code column renamed by hand
\* ("renamed"), created empty ("empty"), or not there ("missing")
FileKinds == {"written", "renamed", "empty", "missing"}
Renamed(fieldnames) == <<"bad_header">> \o Tail(fieldnames)
RecordOf(fieldnames, row) == [k \in DOMAIN fieldnames |-> row[fieldnames[k]]]
FileOf(kind, fieldnames, rs) ==
    CASE kind = "written" ->
           [exists |-> TRUE, header |-> fieldnames,
            records |-> [i \in DOMAIN rs |-> RecordOf(fieldnames, rs[i])]]
      [] kind = "renamed" ->
           [exists |-> TRUE, header |-> Renamed(fieldnames),
            records |-> [i \in DOMAIN rs |-> RecordOf(fieldnames, rs[i])]]
      [] kind = "empty" -> [exists |-> TRUE, header |-> <<>>, records |-> <<>>]
      [] OTHER -> NoFile
MetadataFile == FileOf(call.metadata, FIELDS, store)
AbstractsFile == FileOf(call.abstracts, ABSTRACT_FIELDS, abstracts)

\* rows of metadata.csv: the ones of the abstracts command and one whose title
\* needs a refresh
VerifyRows ==
    AbstractRows \cup {[AbstractRow("beta", "article", "") EXCEPT !.title = "untitled"]}
VerifyStores == UNION {[1..n -> VerifyRows] : n \in 0..MaxRows}
VerifyDirs == {Emp, "alpha" :> 2, "beta" :> 1, ("alpha" :> 2) @@ ("beta" :> 1)}
VerifyMappings == [{"alpha"} -> {"Existing alpha abstract."}] \cup
                  {m \in AbstractMappings : \A c \in DOMAIN m : m[c] = ""}
VerifyCalls ==
    {[fn |-> "verify_integrity", metadata |-> m, abstracts |-> a, done |-> FALSE, result |-> 0] :
        m \in FileKinds, a \in FileKinds}

\* the verify command
CallVerifyIntegrity ==
    /\ call.fn = "verify_integrity"
    /\ ~call.done
    /\ call' = [call EXCEPT !.done = TRUE,
                             !.result = verify_integrity(MetadataFile, Files(fs), AbstractsFile)]
    /\ NoRun

InitVerify ==
    /\ call \in VerifyCalls
    /\ store \in VerifyStores
    /\ call.metadata \in {"empty", "missing"} => store = <<>>
    /\ fs \in VerifyDirs
    /\ abstracts \in {save_abstracts(m) : m \in VerifyMappings}
    /\ call.abstracts \in {"empty", "missing"} => abstracts = <<>>
    /\ today = 1
    /\ edits = 0
    /\ cmds = 0
    /\ interrupts = 0
    /\ pc = "idle"
    /\ dry_run = FALSE
    /\ tools = TRUE
    /\ existing = Emp
    /\ paths = <<>>
    /\ rows = <<>>
    /\ allocs = <<>>
    /\ op = NoOp
    /\ hist = NoHist
NextVerify == CallVerifyIntegrity
SpecVerify == InitVerify /\ [][NextVerify]_vars

(***************************************************************************)
(* The viewer server, CODE/viewer_server.py: the toggle-star and           *)
(* toggle-unread requests, each handled by its own thread of               *)
(* ThreadingHTTPServer, on the bytes of METADATA/metadata.csv              *)
(***************************************************************************)
\* the text save_metadata writes for the rows of the store
write_metadata_file(rs) ==
    CsvText(<<FIELDS>> \o [i \in DOMAIN rs |-> RecordOf(FIELDS, rs[i])])
\* a file as csv.DictReader reads its text: the first record is the header
FileOfRecords(records) ==
    IF records = <<>> THEN [exists |-> TRUE, header |-> <<>>, records |-> <<>>]
    ELSE [exists |-> TRUE, header |-> records[1], records |-> DictRecords(Tail(records))]
ReadFile(text) == FileOfRecords(CsvRead(text))
\* the rows load_rows returns for the text, each with the columns of FIELDS
RowsOfFile(file) ==
    [i \in DOMAIN file.records |->
        [f \in Range(FIELDS) |-> DictGet(file.header, file.records[i], f)]]
read_metadata_file(text) == RowsOfFile(ReadFile(text))

\* a DictReader row: the value under each name of the header
RowDict(header, record) == [n \in Range(header) |-> DictGet(header, record, n)]
\* row[field_name] = ... : the key is set, or added
SetKey(d, name, value) ==
    [n \in DOMAIN d \cup {name} |-> IF n = name THEN value ELSE d[n]]
\* the loop body of _handle_toggle_flag
Toggled(d, file_path, field_name, value) ==
    IF "file" \in DOMAIN d /\ d["file"] = file_path
    THEN SetKey(d, field_name, IF value = "1" THEN "1" ELSE "")
    ELSE d
\* the rows the handler holds after its read
ToggledRows(file, file_path, field_name, value) ==
    [i \in DOMAIN file.records |->
        Toggled(RowDict(file.header, file.records[i]), file_path, field_name, value)]
\* fieldnames, with the flag appended when the header does not have it
ToggleFieldnames(header, field_name) ==
    IF field_name \in Range(header) THEN header ELSE Append(header, field_name)
\* csv.DictWriter: writeheader, writerows; a key a row does not have is written empty
DictWriterText(fieldnames, ds) ==
    CsvText(<<fieldnames>> \o
            [i \in DOMAIN ds |->
                [k \in DOMAIN fieldnames |->
                    IF fieldnames[k] \in DOMAIN ds[i] THEN ds[i][fieldnames[k]] ELSE ""]])
\* a write of `data` at the start of a file that holds `text`: the handle was
\* opened at offset 0, and what another handle wrote beyond the data stays
WriteAtStart(text, data) ==
    IF Len(data) >= Len(text) THEN data ELSE data \o SubSeq(text, Len(data) + 1, Len(text))

\* the requests: the flag, the record named by its code or by the path of its PDF
\* (or not named), the value
MaxThreads == 2
ViewerRow(code, star, unread) ==
    [AbstractRow(code, "article", "") EXCEPT !.star = star, !.unread = unread]
ViewerRows == {ViewerRow("alpha", "", ""), ViewerRow("beta", "1", "1")}
ViewerStores == UNION {[1..n -> ViewerRows] : n \in 1..MaxRows}
ToggleFields == {"star", "unread"}
TogglePayloads ==
    {[field |-> "star", file |-> "alpha", value |-> "1"],
     [field |-> "unread", file |-> " PDFs/beta.pdf", value |-> ""],
     [field |-> "unread", file |-> "alpha", value |-> "1"],
     [field |-> "star", file |-> " ", value |-> "1"]}
NewThread(payload) ==
    [payload |-> payload, pc |-> "start", fieldnames |-> <<>>, rows |-> <<>>]
ViewerCalls ==
    {[fn |-> "toggle_flag", before |-> <<>>, text |-> "", threads |-> ts] :
        ts \in UNION {[1..n -> {NewThread(p) : p \in TogglePayloads}] : n \in 1..MaxThreads}}

\* _handle_toggle_flag up to the end of the first with block: the payload is
\* checked, the file is read whole and the rows are changed in memory
AfterRead(thread, file) ==
    IF Strip(thread.payload.file) = ""
    THEN [thread EXCEPT !.pc = "rejected"]
    ELSE [thread EXCEPT !.pc = "read",
                        !.fieldnames = ToggleFieldnames(file.header, thread.payload.field),
                        !.rows = ToggledRows(file, Strip(thread.payload.file),
                                             thread.payload.field, thread.payload.value)]
ToggleRead(t) ==
    /\ call.fn = "toggle_flag"
    /\ t \in DOMAIN call.threads
    /\ call.threads[t].pc = "start"
    /\ call' = [call EXCEPT !.threads[t] = AfterRead(@, ReadFile(call.text))]
    /\ NoRun
\* metadata_path.open("w"): the file is truncated
ToggleOpen(t) ==
    /\ call.fn = "toggle_flag"
    /\ t \in DOMAIN call.threads
    /\ call.threads[t].pc = "read"
    /\ call' = [call EXCEPT !.threads[t].pc = "open", !.text = ""]
    /\ store' = read_metadata_file("")
    /\ UNCHANGED <<fs, today, edits, cmds, interrupts, pc, dry_run, tools, existing, paths,
                   rows, allocs, op, hist, abstracts>>
\* the end of the second with block: the buffered header and rows reach the file
ToggleWrite(t) ==
    /\ call.fn = "toggle_flag"
    /\ t \in DOMAIN call.threads
    /\ call.threads[t].pc = "open"
    /\ call' = [call EXCEPT
                  !.threads[t].pc = "done",
                  !.text = WriteAtStart(@, DictWriterText(call.threads[t].fieldnames,
                                                          call.threads[t].rows))]
    /\ store' = read_metadata_file(call'.text)
    /\ UNCHANGED <<fs, today, edits, cmds, interrupts, pc, dry_run, tools, existing, paths,
                   rows, allocs, op, hist, abstracts>>

InitViewer ==
    /\ store \in ViewerStores
    /\ \E c \in ViewerCalls :
          call = [c EXCEPT !.before = store, !.text = write_metadata_file(store)]
    /\ fs = Emp
    /\ abstracts = <<>>
    /\ today = 1
    /\ edits = 0
    /\ cmds = 0
    /\ interrupts = 0
    /\ pc = "idle"
    /\ dry_run = FALSE
    /\ tools = TRUE
    /\ existing = Emp
    /\ paths = <<>>
    /\ rows = <<>>
    /\ allocs = <<>>
    /\ op = NoOp
    /\ hist = NoHist
NextViewer ==
    \E t \in 1..MaxThreads :
        \/ ToggleRead(t)
        \/ ToggleOpen(t)
        \/ ToggleWrite(t)
SpecViewer == InitViewer /\ [][NextViewer]_vars

(***************************************************************************)
(* The commands on a library that is already there: the PDFs were scanned  *)
(* once, a title may have been edited by hand, a PDF may have been         *)
(* removed, the abstracts were rebuilt; then one more command runs         *)
(***************************************************************************)
\* the row a first scan (not a dry run) writes for document d, copied into the
\* library under its own name, while the tools work or fail; the file is
\* renamed to the code of the row
ScannedRow(d, inferred) ==
    MergeRow(Emp, Library[d].name, inferred.base_code, inferred, 1)
FirstScanRow(d, ok) == ScannedRow(d, InferFor(d, Library[d].name, ok))
\* the titles a user writes by hand: a bad one, one that normalize_title_text
\* changes again on a second pass and that is digit heavy only then, none, and
\* one with blanks to collapse
HandTitles ==
    {"untitled", "a- b- c 1 2 3 4 5 6 7 8 9 10 11 12 13", "", "  Deep   Nets "}
\* the library of one document: the row as the scan wrote it, with its file or
\* after the user removed the file, or the row with a title edited by hand
DocStates(d) ==
    {[row |-> FirstScanRow(d, ok), there |-> there] : ok \in BOOLEAN, there \in BOOLEAN}
    \cup {[row |-> [FirstScanRow(d, ok) EXCEPT !.title = t], there |-> TRUE] :
             ok \in BOOLEAN, t \in HandTitles}
\* one of the documents 1 and 2 or both, the rows in the order of their file
\* names; rebuild_abstracts wrote an entry for every code
LibraryDocs == <<1, 2>>
ByCode(a, b) == IF StrLess(a.row.code, b.row.code) THEN <<a, b>> ELSE <<b, a>>
LibraryStates ==
    {<<x>> : x \in UNION {DocStates(d) : d \in Range(LibraryDocs)}}
    \cup {ByCode(a, b) : a \in DocStates(LibraryDocs[1]), b \in DocStates(LibraryDocs[2])}
StoreOf(lib) == [i \in DOMAIN lib |-> lib[i].row]
DocOfCode(code) ==
    CHOOSE d \in Range(LibraryDocs) : \E ok \in BOOLEAN : FirstScanRow(d, ok).code = code
DirOf(lib) ==
    [c \in {lib[i].row.code : i \in {j \in DOMAIN lib : lib[j].there}} |-> DocOfCode(c)]
AbstractsOf(lib) ==
    save_abstracts([c \in {lib[i].row.code : i \in DOMAIN lib} |-> "Abstract of " \o c \o "."])

\* every combination of the flags of the cleanup command
AllCleanupRuns ==
    [rename_files : BOOLEAN, dry_run : BOOLEAN, from_pdfs : BOOLEAN, force_titles : BOOLEAN]

InitLibrary ==
    /\ \E lib \in LibraryStates :
          /\ store = StoreOf(lib)
          /\ fs = DirOf(lib)
          /\ abstracts = AbstractsOf(lib)
    /\ today = 2
    /\ edits = 0
    /\ cmds = MaxCmds - 1
    /\ interrupts = 0
    /\ pc = "idle"
    /\ dry_run = FALSE
    /\ tools = TRUE
    /\ existing = Emp
    /\ paths = <<>>
    /\ rows = <<>>
    /\ allocs = <<>>
    /\ op = NoOp
    /\ hist = NoHist
    /\ call = NoCall
NextLibrary ==
    \/ Scan
    \/ \E c \in AllCleanupRuns, ok \in BOOLEAN : cmds < MaxCmds /\ Cleanup(c, ok)
SpecLibrary == InitLibrary /\ [][NextLibrary]_vars

(***************************************************************************)
(* Vocabulary of the properties                                            *)
(***************************************************************************)
\* the fields a merge may fill and must not overwrite
MergeFields ==
    {"type", "title", "journal", "year", "doi", "author", "keywords", "my_keywords",
     "star", "unread", "notes"}
\* every field of a record but its code
CarriedFields == MergeFields \cup {"added_at"}
\* row `new` carries every non-empty value row `old` has in the fields F
Carries(old, new, F) == \A f \in F : old[f] /= "" => new[f] = old[f]
\* no two rows of st have the same code
DistinctCodes(st) == \A i, j \in DOMAIN st : i /= j => st[i].code /= st[j].code
\* the step is a complete run of the tag command, of import-bibtex, of cleanup
TagStep == pc = "idle" /\ cmds' = cmds + 1 /\ op'.cmd = "tag"
ImportStep == pc = "idle" /\ cmds' = cmds + 1 /\ op'.cmd = "import"
CleanupStep == pc = "idle" /\ cmds' = cmds + 1 /\ op'.cmd = "cleanup"
\* what the inference of an iteration proposes for a field of the record
Proposed(inferred, f) == IF f = "type" THEN inferred.doc_type ELSE inferred[f]
\* base_k
Suffixed(base_code, k) == base_code \o "_" \o IntToStr(k)
\* the slot `code` is free for the document stored at current_path
FreeSlot(code, current_path, files) == code \notin files \/ code = current_path

(***************************************************************************)
(* C1. Code uniqueness: the store starts empty, and after any sequence of  *)
(* completed scans and cleanups (with or without --rename, also when a     *)
(* record's PDF was removed) no two records of the store have the same     *)
(* code.                                                                   *)
(***************************************************************************)
C1_CodeUniqueness == DistinctCodes(store)

(***************************************************************************)
(* C2. Merge non-destructiveness: for every record of the store and every  *)
(* field among type, title, journal, year, doi, author, keywords,          *)
(* my_keywords, star, unread, notes whose stored value is non-empty, the   *)
(* record written for the same PDF by a scan, and the same record after    *)
(* tag without --force and after import-bibtex without --force, has the    *)
(* same value in that field.                                               *)
(***************************************************************************)
C2_MergeNonDestructive ==
    [][/\ ScanFinish =>
            \A i \in DOMAIN store :
                \E k \in DOMAIN paths :
                    paths[k] = Strip(store[i].code) /\ Carries(store[i], store'[k], MergeFields)
       /\ ((TagStep \/ ImportStep) /\ ~op'.force) =>
            \A i \in DOMAIN store : Carries(store[i], store'[i], MergeFields)]_vars

(***************************************************************************)
(* C3. Merge fills empty fields: when a scan finds a prior record for a    *)
(* PDF and that record's type, year, doi or author is empty, the record    *)
(* the scan writes has the freshly inferred value in that field.           *)
(***************************************************************************)
C3_MergeFillsEmpty ==
    [][ScanFinish =>
        \A k \in DOMAIN paths : \A f \in {"type", "year", "doi", "author"} :
            (paths[k] \in DOMAIN existing /\ existing[paths[k]][f] = "")
                => store'[k][f] = Proposed(allocs[k].inferred, f)]_vars

(***************************************************************************)
(* C4. No silent deletion: a record that is in the store before a scan and *)
(* whose PDF no longer exists is still in the store after the scan.        *)
(***************************************************************************)
C4_NoSilentDeletion ==
    [][ScanFinish =>
        \A i \in DOMAIN store :
            Strip(store[i].code) \notin Range(paths)
                => \E j \in DOMAIN store' : store'[j] = store[i]]_vars

(***************************************************************************)
(* C5. Code stability: a non-dry-run scan that completes right after       *)
(* another non-dry-run scan, with the same tools and nothing changed in    *)
(* between, renames no file and writes every record under the code it had; *)
(* a cleanup --rename that completes right after another one changes no    *)
(* code and renames no file.                                               *)
(***************************************************************************)
C5_CodeStability ==
    [][/\ (ScanFinish /\ ~dry_run /\ op.cmd = "scan" /\ ~op.dry /\ op.ok = tools) =>
            /\ \A k \in DOMAIN allocs : allocs[k].code = allocs[k].path
            /\ \A k \in DOMAIN store' : store'[k].code = paths[k]
            /\ [i \in DOMAIN store' |-> store'[i].code] = [i \in DOMAIN store |-> store[i].code]
       /\ (CleanupStep /\ op'.rename /\ ~op'.dry /\ op.cmd = "cleanup" /\ op.rename /\ ~op.dry) =>
            /\ fs' = fs
            /\ [i \in DOMAIN store' |-> store'[i].code] = [i \in DOMAIN store |-> store[i].code]]_vars

(***************************************************************************)
(* C6. Year invariant: every record of the store, once written by a scan   *)
(* and after any later scan, cleanup or import-bibtex, has a year of       *)
(* exactly four digits.                                                    *)
(***************************************************************************)
C6_YearInvariant == \A i \in DOMAIN store : YearMatch(store[i].year)

(***************************************************************************)
(* C7. added_at is set once and then immutable: a scan writes the current  *)
(* date into the record of a PDF it has no prior record for and keeps the  *)
(* added_at of a prior record; cleanup, tag and import-bibtex keep every   *)
(* record's added_at; and the complete scan that follows an interrupted    *)
(* one writes for every document the added_at its record had before.       *)
(***************************************************************************)
C7_AddedAtImmutable ==
    [][/\ ScanFinish =>
            \A k \in DOMAIN paths :
                store'[k].added_at =
                    IF paths[k] \in DOMAIN existing THEN existing[paths[k]].added_at
                    ELSE DateStr(today)
       /\ (CleanupStep \/ TagStep \/ ImportStep) =>
            \A i \in DOMAIN store : store'[i].added_at = store[i].added_at
       /\ (ScanFinish /\ hist.mode = "interrupted") =>
            \A k \in DOMAIN store' :
                fs[store'[k].code] \in DOMAIN hist.owned
                    => store'[k].added_at = hist.owned[fs[store'[k].code]].added_at]_vars

(***************************************************************************)
(* C8. An interrupted run loses only in-memory changes: the interruption   *)
(* of a non-dry-run scan leaves the store as it was, and the complete scan *)
(* that follows writes for every document a record with every non-empty    *)
(* field value the document's record had before the interrupted run.       *)
(***************************************************************************)
C8_InterruptedRun ==
    [][/\ ScanInterrupt => store' = store
       /\ (ScanFinish /\ hist.mode = "interrupted") =>
            \A k \in DOMAIN store' :
                fs[store'[k].code] \in DOMAIN hist.owned
                    => Carries(hist.owned[fs[store'[k].code]], store'[k], CarriedFields)]_vars

C10_StoreJoin ==
    [][ScanFinish =>
        /\ Len(store') = Cardinality(Files(fs'))
        /\ {store'[k].code : k \in DOMAIN store'} = Files(fs')
        /\ DistinctCodes(store')
        /\ \A k \in DOMAIN store' : fs'[store'[k].code] = allocs[k].doc
        /\ ~dry_run => \A k \in DOMAIN store' : store'[k].code = allocs[k].code
        /\ Cardinality(Files(fs')) = Len(paths)]_vars

\* a non-dry-run scan of two PDFs has completed, having renamed both
C10_Witness ==
    /\ pc = "idle"
    /\ op.cmd = "scan"
    /\ ~op.dry
    /\ Len(store) = 2
    /\ {store[k].code : k \in DOMAIN store} = Files(fs)
    /\ \A d \in {fs[n] : n \in Files(fs)} : Library[d].name \notin Files(fs)

(***************************************************************************)
(* Vocabulary of the properties of the text functions                      *)
(***************************************************************************)
\* the first non-empty value of a sequence of stage results, else default
FirstFound(stages, default) ==
    IF \A k \in DOMAIN stages : stages[k] = "" THEN default
    ELSE stages[CHOOSE k \in DOMAIN stages : stages[k] /= "" /\ \A j \in 1..(k - 1) : stages[j] = ""]
\* the positions of s where an arXiv yymm.number token starts
NameArxivTokens(s) == {i \in 1..Len(s) : ArxivAt(s, i)}
\* the positions of s where an arXiv: reference starts
TextArxivTokens(s) == {i \in 1..Len(s) : ArxivTextAt(s, i)}
\* 2000 + yy for the two digits yy at position d of s
Year2000(s, d) == "20" \o Ch(s, d) \o Ch(s, d + 1)
\* stage (b): the leftmost arXiv token of the file name
StageNameArxiv(filename) ==
    IF NameArxivTokens(filename) = {} THEN ""
    ELSE Year2000(filename, MinOrZero(NameArxivTokens(filename)))
\* stage (c): the leftmost arXiv reference of the text; its number follows
\* "arxiv:" and any whitespace
StageTextArxiv(text) ==
    IF TextArxivTokens(text) = {} THEN ""
    ELSE Year2000(text, CHOOSE d \in 1..Len(text) :
                        /\ d >= MinOrZero(TextArxivTokens(text)) + 6
                        /\ Ch(text, d) \in DigitChars
                        /\ \A j \in (MinOrZero(TextArxivTokens(text)) + 6)..(d - 1) :
                                Ch(text, j) \in SpaceChars)
\* stage (e): the largest of the 19xx/20xx tokens of the text
StageTextMax(text) ==
    IF TextYears(text) = {} THEN ""
    ELSE CHOOSE y \in {SubSeq(text, i, i + 3) : i \in TextYears(text)} :
            \A i \in TextYears(text) : Year4Val(SubSeq(text, i, i + 3)) <= Year4Val(y)
\* the keyword groups of infer_type in their order
TypeGroups ==
    <<[type |-> "thesis", words |-> {"thesis", "phd"}],
      [type |-> "slides", words |-> {"slides", "presentation"}],
      [type |-> "poster", words |-> {"poster"}],
      [type |-> "preprint", words |-> {"arxiv"}],
      [type |-> "book", words |-> {"book"}]>>
Types == {"article", "thesis", "slides", "poster", "preprint", "book"}
\* a keyword of group g occurs in the file name, the title or the creator
GroupMatches(g, filename, title, creator) ==
    \E w \in TypeGroups[g].words : \E part \in {filename, title, creator} : Contains(ToLower(part), w)

(***************************************************************************)
(* C11. Year fallback ordering: infer_year returns the value of the first  *)
(* stage that finds something, in the order creation-date year, arXiv yymm *)
(* token of the file name read as 2000+yy, arXiv reference of the text,    *)
(* 19xx/20xx token of the file name, largest 19xx/20xx token of the text,  *)
(* and "0000" when no stage finds anything.                                *)
(***************************************************************************)
C11_YearFallbackOrder ==
    (call.fn = "infer_year" /\ call.done) =>
        call.result = FirstFound(<<FirstYear(call.creation), StageNameArxiv(call.filename),
                                   StageTextArxiv(call.text), FirstYear(call.filename),
                                   StageTextMax(call.text)>>, "0000")

\* the creation date says 2019 and the text 2021 and 2022: the result is 2019
C11_Witness ==
    /\ call.fn = "infer_year"
    /\ call.done
    /\ call.filename = "foo.pdf"
    /\ call.creation = "D:20190304101500"
    /\ call.text = "Published 2021, revised 2022."
    /\ call.result = "2019"

(***************************************************************************)
(* C12. Type inference priority: infer_type returns the type of the first  *)
(* keyword group, in the order thesis/phd, slides/presentation, poster,    *)
(* arxiv, book, with a keyword in the file name, the title or the creator, *)
(* and article when no group has one; the result is one of the six types.  *)
(***************************************************************************)
C12_TypePriority ==
    (call.fn = "infer_type" /\ call.done) =>
        /\ call.result \in Types
        /\ call.result =
              FirstFound([g \in DOMAIN TypeGroups |->
                            IF GroupMatches(g, call.filename, call.title, call.creator)
                            THEN TypeGroups[g].type ELSE ""], "article")

\* an arXiv document whose file name contains thesis is a thesis
C12_Witness ==
    /\ call.fn = "infer_type"
    /\ call.done
    /\ call.filename = "arxiv_thesis_2020.pdf"
    /\ call.creator = "arXiv GenPDF"
    /\ call.result = "thesis"

\* the sources of extract_title as it reads them: the embedded title trimmed and
\* normalized, the first-page guess normalized, the stem with spaces for underscores
InfoTitleOf(c) == normalize_title_text(Strip(c.title))
GuessedOf(c) == normalize_title_text(guess_title_from_first_page(c.text))
StemSpaced(c) == ReplaceCh(Stem(c.filename), "_", " ")
\* a source when it is not flagged as needing refresh, else nothing
Unflagged(t) == IF needs_title_refresh(t) THEN "" ELSE t
\* the resolution order of extract_title
TitleOrder(c, info, guessed) ==
    c.result = FirstFound(<<Unflagged(info), Unflagged(guessed), info, guessed>>,
                          normalize_title_text(StemSpaced(c)))

Scored == call.fn = "score_title_candidate" /\ call.done
Gated == call.fn = "needs_title_refresh" /\ call.done
\* the candidate holds a structural noise word
HasNoiseWord(text) == TITLE_NOISE_RE(ToLower(text))

(***************************************************************************)
(* C14. Noise-word rejection: every candidate holding a structural noise   *)
(* word scores <= 0 and is flagged as needing refresh, whatever rewards it *)
(* collects; "Volume 12, Issue 3, ISSN 1234-5678" scores <= 0 and is       *)
(* flagged, "A Survey of Efficient Caching Strategies for Distributed      *)
(* Systems" scores > 0.                                                    *)
(***************************************************************************)
C14_NoiseWordRejection ==
    /\ (Scored /\ HasNoiseWord(call.text)) => call.result <= 0
    /\ (Gated /\ HasNoiseWord(call.text)) => call.result = TRUE
    /\ (Scored /\ call.text = "A Survey of Efficient Caching Strategies for Distributed Systems")
          => call.result > 0

\* a candidate with a noise word and both rewards, four to 24 words and 24 to
\* 180 characters, has been put to the refresh gate
C14_Witness ==
    /\ Gated
    /\ call.text = "Number Theory and Its Applications Today"
    /\ HasNoiseWord(call.text)
    /\ score_title_candidate(call.text) = 0
    /\ call.result = TRUE

\* the title ends in a file-name extension
EndsInExtension(text) == \E e \in BadTitleExtensions : EndsWith(ToLower(text), "." \o e)
\* the largest score a candidate can have once the bad-title penalty is applied
PenalizedScore(text) ==
    Points(4 <= WordCount(text) /\ WordCount(text) <= 24, 3)
        + Points(24 <= Len(text) /\ Len(text) <= 180, 3) - 6

(***************************************************************************)
(* C15. File-name-extension titles are bad titles: a title ending in       *)
(* .pdf, .dvi, .tif, .djvu or .doc matches the bad-title pattern, the      *)
(* scorer applies the bad-title penalty to it and needs_title_refresh      *)
(* flags it.                                                               *)
(***************************************************************************)
C15_ExtensionTitlesBad ==
    ((Scored \/ Gated) /\ EndsInExtension(call.text)) =>
        /\ BAD_TITLE_RE(ToLower(call.text))
        /\ Scored => call.result <= PenalizedScore(call.text)
        /\ Gated => call.result = TRUE

(***************************************************************************)
(* C16. Normalization idempotence: normalize_title_text applied to its own *)
(* result returns that result, for every string.                           *)
(***************************************************************************)
C16_NormalizationIdempotent ==
    (call.fn = "normalize_title_text" /\ call.again) => call.second = call.result

\* a call of the abstract extractor has been made
Extracted == call.fn = "extract_first_text_block" /\ call.done
\* the lines of a text as the extractor reads them, and those that start with the label
LinesOf(text) == AbstractLines(SplitLines(text))
Labels(lines) == {i \in DOMAIN lines : WordPrefix(ToLower(lines[i]), "abstract")}
\* a content line: not blank and without a noise marker
ContentLine(line) == line /= "" /\ ~ABSTRACT_NOISE_RE(ToLower(line))
\* content has started before line j of the section of the label on line idx
Started(lines, idx, j) ==
    \/ Strip(InlineAfterLabel(lines[idx])) /= ""
    \/ \E k \in (idx + 1)..(j - 1) : ContentLine(lines[k])
\* line j ends the section of the label on line idx
Terminator(lines, idx, j) ==
    \/ ABSTRACT_SECTION_RE(ToLower(lines[j]))
    \/ /\ Started(lines, idx, j)
       /\ \/ lines[j] = ""
          \/ ContentLine(lines[j]) /\ IsUpper(lines[j]) /\ WordCount(lines[j]) <= HeaderMaxWords
\* the first terminator after line idx, the line after the last when there is none
SectionEnd(lines, idx) ==
    IF \E j \in (idx + 1)..Len(lines) : Terminator(lines, idx, j)
    THEN MinOrZero({j \in (idx + 1)..Len(lines) : Terminator(lines, idx, j)})
    ELSE Len(lines) + 1
\* the inline text after the label and the content lines up to the first
\* terminator, joined and cleaned
SectionText(lines, idx) ==
    clean_abstract_text(JoinSpace(
        LabelledStart(InlineAfterLabel(lines[idx]))
            \o SelectSeq(SubSeq(lines, idx + 1, SectionEnd(lines, idx) - 1), ContentLine)))
\* the labels whose section gives an accepted candidate
AcceptedLabels(lines) ==
    {i \in Labels(lines) : LabelledAccepted(SectionText(lines, i), ToLower(SectionText(lines, i)))}
\* no body-section line of the text is in the abstract
NoSectionText(lines, abstract) ==
    \A j \in DOMAIN lines : ABSTRACT_SECTION_RE(ToLower(lines[j])) => ~Contains(abstract, lines[j])

(***************************************************************************)
(* C17 as stated. Abstract boundary detection: when the text has a line    *)
(* starting with an Abstract label, the extracted abstract consists only   *)
(* of the inline text after the label and the following content lines up   *)
(* to the first terminator, and no text of a Keywords or Introduction      *)
(* section appears in it.                                                  *)
(***************************************************************************)
C17_AbstractBoundary ==
    (Extracted /\ Labels(LinesOf(call.text)) /= {} /\ call.result /= "") =>
        /\ \E idx \in Labels(LinesOf(call.text)) :
                call.result = SectionText(LinesOf(call.text), idx)
        /\ NoSectionText(LinesOf(call.text), call.result)

(***************************************************************************)
(* C17 amended. When the section of some Abstract label is accepted (its   *)
(* cleaned text is non-empty, has no noise marker and no boilerplate       *)
(* start), the extracted abstract is the text of the first such section:   *)
(* the inline text after the label and the following content lines up to   *)
(* the first terminator, and no body-section line appears in it.           *)
(***************************************************************************)
C17_AcceptedSectionBoundary ==
    (Extracted /\ AcceptedLabels(LinesOf(call.text)) /= {}) =>
        /\ call.result =
              SectionText(LinesOf(call.text), MinOrZero(AcceptedLabels(LinesOf(call.text))))
        /\ NoSectionText(LinesOf(call.text), call.result)

\* the ABSTRACT line is followed by two sentences, a blank line, Keywords and
\* Introduction: the abstract is the two sentences
C17_Witness ==
    /\ Extracted
    /\ AcceptedLabels(LinesOf(call.text)) = {3}
    /\ \E j \in DOMAIN LinesOf(call.text) : StartsWith(LinesOf(call.text)[j], "Keywords")
    /\ call.result = "Sentence one. Sentence two."

\* the abstract passes the quality gate as it is
PassesGate(abstract) ==
    /\ Len(abstract) >= AbstractMinLen
    /\ ~ABSTRACT_NOISE_RE(ToLower(abstract))
    /\ ~BoilerplateStart(ToLower(abstract))

Guessed == call.fn = "guess_abstract_for_row" /\ call.done
\* what the extractor gets from the PDF of the row, "" when it is not asked or no
\* file is there
ExtractedFor(c) ==
    IF c.from_pdfs /\ c.row.code \in Files(c.files)
    THEN extract_first_text_block(run_pdftotext_full(c.files[c.row.code], c.ok))
    ELSE ""
NonArticleTypes == Types \ {"article"}
\* the one-line summary of a record
Summary(row) ==
    Capitalize(ToLower(Strip(row.type))) \o " focused on " \o normalize_title_text(row.title) \o "."

(***************************************************************************)
(* C19. Abstract final fallback: when no abstract is extracted from the    *)
(* PDF, guess_abstract_for_row returns the cleaned notes if they are not   *)
(* empty; otherwise, for a record with a title and a non-article type      *)
(* (thesis, slides, poster, preprint, book), the summary "<Type> focused   *)
(* on <title>."; otherwise the empty string.                               *)
(***************************************************************************)
C19_FinalFallback ==
    (Guessed /\ ExtractedFor(call) = "") =>
        call.result =
            IF clean_abstract_text(call.row.notes) /= "" THEN clean_abstract_text(call.row.notes)
            ELSE IF call.row.title /= "" /\ ToLower(Strip(call.row.type)) \in NonArticleTypes
                 THEN Summary(call.row)
            ELSE ""

\* the abstracts command has run
Rebuilt == op.cmd = "abstracts"
\* the non-empty codes of the metadata store
StoreCodes == {Strip(store[i].code) : i \in DOMAIN store} \ {""}

(***************************************************************************)
(* C20. Abstract rebuild: after rebuild_abstracts the abstracts store has  *)
(* exactly one entry per non-empty code of the metadata store and none for *)
(* any other code; without --force every non-empty abstract that was there *)
(* for a code of the metadata store is kept unchanged.                     *)
(***************************************************************************)
C20_AbstractRebuild ==
    Rebuilt =>
        /\ {abstracts[i].code : i \in DOMAIN abstracts} = StoreCodes
        /\ Len(abstracts) = Cardinality(StoreCodes)
        /\ ~op.force =>
              \A i \in DOMAIN abstracts :
                  (abstracts[i].code \in DOMAIN hist.owned /\ hist.owned[abstracts[i].code] /= "")
                      => abstracts[i].abstract = hist.owned[abstracts[i].code]

\* without --force: the abstract of alpha is kept, that of beta is made from its
\* notes, the entry of a code that is not in the metadata store is dropped
C20_Witness ==
    /\ Rebuilt
    /\ ~op.force
    /\ DOMAIN hist.owned = {"alpha", "orphan"}
    /\ hist.owned["alpha"] /= ""
    /\ abstracts = <<[code |-> "alpha", abstract |-> "Existing alpha abstract."],
                     [code |-> "beta", abstract |-> "Beta abstract from notes."]>>
\* the records of the file a call of save_abstracts wrote
SavedRecords == CsvRead(call.text)
\* strictly ascending in the order of sorted(): by code point
Ascending(codes) == \A i, j \in DOMAIN codes : i < j => StrLess(codes[i], codes[j])

(***************************************************************************)
(* C21. Abstract store round trip: for every mapping m from non-empty,     *)
(* trimmed codes to abstract strings, load_abstracts() after               *)
(* save_abstracts(m) returns m, and the file holds the header code,        *)
(* abstract and then one row per code in ascending code order, whatever    *)
(* the order the codes were inserted in.                                   *)
(***************************************************************************)
C21_AbstractRoundTrip ==
    (call.fn = "save_abstracts" /\ call.saved) =>
        /\ SavedRecords[1] = ABSTRACT_FIELDS
        /\ Len(SavedRecords) = 1 + Cardinality(DOMAIN DictOf(call.items))
        /\ {SavedRecords[k][1] : k \in 2..Len(SavedRecords)} = DOMAIN DictOf(call.items)
        /\ Ascending([k \in 1..(Len(SavedRecords) - 1) |-> SavedRecords[k + 1][1]])
        /\ call.done => call.result = DictOf(call.items)

\* b_code is inserted before a_code, with abstracts the writer has to quote; the
\* file lists a_code first and the mapping is read back
C21_Witness ==
    /\ call.fn = "save_abstracts"
    /\ call.done
    /\ call.items = <<[code |-> "b_code", abstract |-> "Second, \"quoted\""],
                      [code |-> "a_code", abstract |-> "two\r\nlines"]>>
    /\ call.text = "code,abstract\r\na_code,\"two\r\nlines\"\r\nb_code,\"Second, \"\"quoted\"\"\"\r\n"
    /\ call.result = ("a_code" :> "two\r\nlines") @@ ("b_code" :> "Second, \"quoted\"")
\* the date a string stands for when, the whitespace around it aside, it is
\* written YYYY-MM-DD and is a date of the calendar; None otherwise
ValidDate(s) == IF ADDED_AT_RE(Strip(s)) THEN FromIsoFormat(Strip(s)) ELSE None
\* the date criterion of a call of filter_rows is active
DateActive(c) == c.added_from /= None \/ c.added_to /= None
\* no criterion but the date range and the unread flag is active
OnlyDateAndUnread(c) ==
    /\ c.year_from = None
    /\ c.year_to = None
    /\ c.journal = ""
    /\ c.keyword = ""
    /\ c.my_keyword = ""
\* the date is valid and within the inclusive range of the criteria c
InRange(d, c) ==
    /\ d /= None
    /\ c.added_from /= None => d[1] >= c.added_from[1]
    /\ c.added_to /= None => d[1] <= c.added_to[1]
\* the row satisfies the date and unread criteria of the call, the unread field
\* read as it is written; and read with the whitespace around it taken off
PassesAsWritten(row) ==
    /\ DateActive(call.c) => InRange(ValidDate(row.added_at), call.c)
    /\ call.c.unread_only => row.unread = "1"
PassesTrimmed(row) ==
    /\ DateActive(call.c) => InRange(ValidDate(row.added_at), call.c)
    /\ call.c.unread_only => Strip(row.unread) = "1"
Filtered == call.fn = "filter_rows" /\ call.done

(***************************************************************************)
(* C22 as claimed. filter_rows returns, in input order, exactly the rows   *)
(* that satisfy every active criterion: with a date bound given a row      *)
(* passes only if its added_at is a valid YYYY-MM-DD date within the       *)
(* inclusive range, with unread_only only if its unread field is exactly   *)
(* "1"; with no criterion active every row is returned.                    *)
(***************************************************************************)
C22_FilterExact ==
    Filtered =>
        /\ \A i \in DOMAIN call.result : PassesAsWritten(call.result[i])
        /\ OnlyDateAndUnread(call.c) => call.result = SelectSeq(call.rows, PassesAsWritten)
        /\ call.c = NoCriteria => call.result = call.rows

(***************************************************************************)
(* C22 as amended. The same, with the unread field read after the          *)
(* whitespace around it is taken off: a row passes the unread criterion    *)
(* only if its trimmed unread field is exactly "1".                        *)
(***************************************************************************)
C22_FilterTrimmed ==
    Filtered =>
        /\ \A i \in DOMAIN call.result : PassesTrimmed(call.result[i])
        /\ OnlyDateAndUnread(call.c) => call.result = SelectSeq(call.rows, PassesTrimmed)
        /\ call.c = NoCriteria => call.result = call.rows

\* the rows of 10, 12 and 15 January filtered from the 11th to the 13th: the row
\* of the 12th alone
C22_Witness ==
    /\ Filtered
    /\ call.c = [NoCriteria EXCEPT !.added_from = DateOf(2026, 1, 11), !.added_to = DateOf(2026, 1, 13)]
    /\ [i \in DOMAIN call.rows |-> call.rows[i].code] = <<"a", "b", "c">>
    /\ [i \in DOMAIN call.result |-> call.result[i].code] = <<"b">>

\* a call of sort_rows_by_added has returned
Sorted == call.fn = "sort_rows_by_added" /\ call.done
\* b holds the elements of a, each as many times
Count(seq, x) == Cardinality({i \in DOMAIN seq : seq[i] = x})
Permutation(a, b) == \A x \in Range(a) \cup Range(b) : Count(a, x) = Count(b, x)
HasValidDate(row) == ValidDate(row.added_at) /= None
HasNoValidDate(row) == ValidDate(row.added_at) = None
\* date a does not come after date b in the direction of the sort
InOrder(a, b, descending) == IF descending THEN a[1] >= b[1] ELSE a[1] <= b[1]

(***************************************************************************)
(* C23. sort_rows_by_added returns a permutation of its input in which all *)
(* rows with a valid added_at come first, ordered by date (ascending, or   *)
(* descending when requested), and all rows with a missing or invalid      *)
(* added_at come last in their original relative order, in both sort       *)
(* directions.                                                             *)
(***************************************************************************)
C23_SortMissingLast ==
    Sorted =>
        /\ Permutation(call.result, call.rows)
        /\ \E k \in 0..Len(call.result) :
              /\ \A i \in 1..k : HasValidDate(call.result[i])
              /\ \A i, j \in 1..k :
                    i < j => InOrder(ValidDate(call.result[i].added_at),
                                     ValidDate(call.result[j].added_at), call.descending)
              /\ SubSeq(call.result, k + 1, Len(call.result)) = SelectSeq(call.rows, HasNoValidDate)

\* an old row, a row without a date and a new row, sorted descending: new, old,
\* and the row without a date last
C23_Witness ==
    /\ Sorted
    /\ call.descending
    /\ [i \in DOMAIN call.rows |-> call.rows[i].code] = <<"a", "d", "b">>
    /\ [i \in DOMAIN call.result |-> call.result[i].code] = <<"b", "a", "d">>

\* The issue classes of a library, read off the files: a record is a row of a
\* metadata file with the header FIELDS whose code is not blank; an entry of the
\* abstracts file has a code only under the header code,abstract
Coded == IF call.metadata = "written" THEN {i \in DOMAIN store : Strip(store[i].code) /= ""} ELSE {}
RecordCodes == {Strip(store[i].code) : i \in Coded}
EntryCodes ==
    IF call.abstracts = "written"
    THEN {Strip(abstracts[k].code) : k \in DOMAIN abstracts} \ {""}
    ELSE {}
MetadataMissing == call.metadata = "missing"
MetadataHeaderDiffers == call.metadata \in {"renamed", "empty"}
PdfWithoutRecord == Files(fs) \ RecordCodes /= {}
RecordWithoutPdf == RecordCodes \ Files(fs) /= {}
BadTitle == \E i \in DOMAIN store : needs_title_refresh(Strip(store[i].title))
DuplicateCode == \E i, j \in Coded : i /= j /\ Strip(store[i].code) = Strip(store[j].code)
AbstractsMissing == call.abstracts = "missing"
AbstractsHeaderMismatch == call.abstracts \in {"renamed", "empty"}
UnknownAbstractCode == EntryCodes \ RecordCodes /= {}
IssueClasses ==
    Issue(MetadataMissing) + Issue(MetadataHeaderDiffers) + Issue(PdfWithoutRecord)
    + Issue(RecordWithoutPdf) + Issue(BadTitle) + Issue(DuplicateCode)
    + Issue(AbstractsMissing) + Issue(AbstractsHeaderMismatch) + Issue(UnknownAbstractCode)

(***************************************************************************)
(* C24. Aggregate integrity verification: verify_integrity returns the     *)
(* number of issue classes that hold of the library (missing metadata      *)
(* file, metadata header different from FIELDS, PDF without record, record *)
(* without PDF, bad title, duplicate code, missing abstracts file,         *)
(* abstracts header mismatch, abstract entry for an unknown code), whatever *)
(* it found earlier, and returns 0 exactly when none of them holds.        *)
(***************************************************************************)
C24_VerifyAggregate ==
    (call.fn = "verify_integrity" /\ call.done) =>
        /\ call.result = IssueClasses
        /\ call.result = 0 <=> IssueClasses = 0
\* the same count on every library whose metadata file, when there is one, has a
\* first line
VerifyCountsWithHeader ==
    (call.fn = "verify_integrity" /\ call.done /\ call.metadata /= "empty") =>
        call.result = IssueClasses

\* A request names a record by its code, the primary key of the store bib.py
\* writes, or by the path of its PDF
Names(file_path, row) ==
    Strip(row.code) /= "" /\ file_path \in {Strip(row.code), code_to_rel_pdf_path(row.code)}
FlagOf(value) == IF value = "1" THEN "1" ELSE ""
\* the store a request asks for
Requested(rs, payload) ==
    [i \in DOMAIN rs |->
        IF Names(Strip(payload.file), rs[i])
        THEN [rs[i] EXCEPT ![payload.field] = FlagOf(payload.value)]
        ELSE rs[i]]
AloneDone == call.fn = "toggle_flag" /\ Len(call.threads) = 1 /\ call.threads[1].pc = "done"

(***************************************************************************)
(* C25. Viewer flag toggles address records by the store's primary key:    *)
(* after a toggle-star or toggle-unread request that names a record of the *)
(* store bib.py wrote, handled alone, that record's flag is "1" when the   *)
(* requested value is "1" and empty otherwise, and every other record and  *)
(* every other field is as before.                                         *)
(***************************************************************************)
C25_ToggleByKey ==
    (/\ AloneDone
     /\ \E i \in DOMAIN call.before : Names(Strip(call.threads[1].payload.file), call.before[i]))
        => store = Requested(call.before, call.threads[1].payload)
\* what the handler does to that store: it writes the file back as it read it
ToggleKeepsStore == AloneDone => store = call.before /\ call.text = write_metadata_file(call.before)

\* the file one request leaves when it is handled alone
WrittenBy(thread) == DictWriterText(thread.fieldnames, thread.rows)
HandledAlone(text, payload) ==
    IF Strip(payload.file) = "" THEN text
    ELSE WrittenBy(AfterRead(NewThread(payload), ReadFile(text)))
BothFinished ==
    /\ call.fn = "toggle_flag"
    /\ Len(call.threads) = 2
    /\ \A t \in 1..2 : call.threads[t].pc \in {"done", "rejected"}
OneAfterTheOther(first, second) ==
    HandledAlone(HandledAlone(write_metadata_file(call.before), call.threads[first].payload),
                 call.threads[second].payload)

(***************************************************************************)
(* C30. No lost update under concurrent viewer requests: when two          *)
(* flag-toggle requests have been handled concurrently, the metadata file  *)
(* is the one that handling them one after the other, in one of the two    *)
(* orders, leaves.                                                         *)
(***************************************************************************)
C30_NoLostUpdate ==
    BothFinished => call.text \in {OneAfterTheOther(1, 2), OneAfterTheOther(2, 1)}

\* the steps of a dry run: an iteration of scan --dry-run, a cleanup --dry-run
DryScanStep == pc = "scan" /\ dry_run
DryCleanupStep == CleanupStep /\ op'.dry
DryScanFinish == pc = "scan" /\ dry_run /\ pc' = "idle" /\ cmds' = cmds + 1

(***************************************************************************)
(* C27. Dry-run performs no rename: no step of scan --dry-run and no       *)
(* cleanup --dry-run (with --rename or without) renames, creates or        *)
(* removes a file of the library directory: the set of PDF file names      *)
(* after the step, and at the end of the scan, is the set before it.       *)
(***************************************************************************)
C27_DryRunKeepsFiles ==
    [][/\ (DryScanStep \/ DryCleanupStep) => Files(fs') = Files(fs)
       /\ DryScanFinish => Files(fs) = Range(paths)]_vars
\* a dry-run scan has passed a file it would have renamed
C27_Witness ==
    /\ pc = "scan"
    /\ dry_run
    /\ \E i \in DOMAIN allocs : allocs[i].code /= allocs[i].path

(***************************************************************************)
(* C28. Dry-run leaves the metadata store unchanged: after scan --dry-run  *)
(* or cleanup --dry-run (whatever the other flags) the store holds exactly *)
(* the records, in the same order and with the same field values, that it  *)
(* held before the run.                                                    *)
(***************************************************************************)
C28_DryRunKeepsStore ==
    [][(DryScanStep \/ DryCleanupStep) => store' = store]_vars
\* the cleanup half
DryCleanupKeepsStore == [][DryCleanupStep => store' = store]_vars

\* the title of row i after the step is neither the stored one nor its normal
\* form: it was extracted from the PDF
Replaced(i) ==
    store'[i].title \notin {store[i].title, normalize_title_text(store[i].title)}
GateKeeps(i) ==
    (op'.from_pdfs /\ ~op'.force /\ ~needs_title_refresh(store[i].title)) => ~Replaced(i)
ReplacementScores(i) ==
    Replaced(i) =>
        /\ score_title_candidate(store'[i].title) > 0
        /\ ~op'.force =>
              /\ score_title_candidate(store'[i].title)
                   > score_title_candidate(normalize_title_text(store[i].title))
              /\ ~needs_title_refresh(store'[i].title)
NeverEmptied(i) == store'[i].title = "" => store[i].title = ""

(***************************************************************************)
(* C26. Title refresh gate in cleanup: in cleanup --from-pdfs without      *)
(* --force-titles a stored title that needs_title_refresh does not flag is *)
(* never replaced by an extracted title (it is at most normalized);        *)
(* whenever cleanup replaces a title by an extracted one, the extracted    *)
(* title scores above 0 and, without --force-titles, scores strictly       *)
(* higher than the current (normalized) title and is itself not flagged;   *)
(* cleanup never sets a title to the empty string.                         *)
(***************************************************************************)
C26_TitleRefreshGate ==
    [][CleanupStep =>
          /\ Len(store') = Len(store)
          /\ \A i \in DOMAIN store : GateKeeps(i) /\ ReplacementScores(i) /\ NeverEmptied(i)]_vars
\* the gate as the code evaluates it, on the normalized title
GateKeepsNormalized(i) ==
    (op'.from_pdfs /\ ~op'.force
     /\ ~needs_title_refresh(normalize_title_text(store[i].title))) => ~Replaced(i)
TitleRefreshGateNormalized ==
    [][CleanupStep =>
          \A i \in DOMAIN store :
              GateKeepsNormalized(i) /\ ReplacementScores(i) /\ NeverEmptied(i)]_vars

\* every entry of the abstracts file refers to a code of the store
CodesOfStore(st) == {Strip(st[i].code) : i \in DOMAIN st}
EntriesKnown(entries, st) ==
    \A k \in DOMAIN entries : Strip(entries[k].code) \in CodesOfStore(st)
\* the abstract under `new` after the step is the one under `old` before it
Follows(old, new) ==
    old \in DOMAIN load_abstracts(abstracts) =>
        /\ new \in DOMAIN load_abstracts(abstracts')
        /\ load_abstracts(abstracts')[new] = load_abstracts(abstracts)[old]
\* a scan that is not a dry run completes after it renamed a file; a cleanup
\* --rename that is not a dry run changes a code
RenamingScanFinish ==
    /\ pc = "scan" /\ ~dry_run /\ pc' = "idle" /\ cmds' = cmds + 1
    /\ \E i \in DOMAIN allocs : allocs[i].code /= allocs[i].path
RenamingCleanup ==
    /\ CleanupStep /\ op'.rename /\ ~op'.dry
    /\ \E i \in DOMAIN store : store'[i].code /= store[i].code

(***************************************************************************)
(* C29. Abstracts follow code changes: when every entry of the abstracts   *)
(* file refers to a code of the store, then after a scan (not a dry run)   *)
(* or a cleanup --rename that changes the code of a record every entry     *)
(* still refers to a code of the store, and the abstract of the renamed    *)
(* record is found under its new code.                                     *)
(***************************************************************************)
C29_AbstractsFollowCodes ==
    [][/\ (EntriesKnown(abstracts, store) /\ RenamingScanFinish) =>
             /\ EntriesKnown(abstracts', store')
             /\ \A i \in DOMAIN allocs : Follows(allocs[i].path, allocs[i].code)
       /\ (EntriesKnown(abstracts, store) /\ RenamingCleanup) =>
             /\ EntriesKnown(abstracts', store')
             /\ \A i \in DOMAIN store : Follows(Strip(store[i].code), Strip(store'[i].code))]_vars
\* neither command writes the abstracts file
AbstractsUntouched ==
    [][(pc = "scan" \/ CleanupStep) => abstracts' = abstracts]_vars
====
